---- MODULE Spec2Model ----
(***************************************************************************)
(* A model of the habit tracker's frame loop (game/app.py), its screens    *)
(* (game/*.py) and its store (data/db.py).                                 *)
(*                                                                         *)
(* Strings the code parses or formats (habit names, recurrences) are       *)
(* sequences of one-character strings; times are integer milliseconds;     *)
(* Python's None is the string "None" for an Optional[str], the id 0 for   *)
(* an Optional[int] (row ids start at 1) and the empty sequence for an     *)
(* Optional[dict] (a present dict d is <<d>>).                             *)
(***************************************************************************)
EXTENDS Integers, Sequences, FiniteSets, TLC

VARIABLES
    screens,               \* App.screens: the names registered (the registry's keys)
    initial_screen,        \* the initial_screen argument of App.__init__
    current_screen_name,   \* App.current_screen_name
    current_screen,        \* App.current_screen: the instance, named by the key it is registered under
    running,               \* App.running
    pc,                    \* App.run: not called yet, in its loop, or returned
    next_screen,           \* what handle_input returned in the latest iteration
    frame,                 \* the calls App made in its latest iteration, in order
    presses,               \* press events the input source may still produce
    db,                    \* Database: habits table, sqlite's AUTOINCREMENT sequence
    selected_habit_data,   \* ViewHabitsScreen.selected_habit_data (class variable)
    load_history,          \* the arguments of the last two load_habit_data calls, oldest first
    edit_loaded,           \* the EditHabitScreen instance as the last load_habit_data call left it
    view,                  \* the ViewHabitsScreen instance
    edit,                  \* the EditHabitScreen instance
    menu,                  \* the MenuScreen instance
    settings,              \* the SettingsScreen instance (game/settings_screen.py)
    others,                \* the remaining screens' instances, by name
    event_queue,           \* pygame's event queue: the raw events posted and not yet got
    raised,                \* the input events the raw events posted so far stand for, in order
    polled,                \* what the polls of the input source returned, oldest first
    pins,                  \* the level of each GPIO pin
    prev_state,            \* GPIOInput.prev_state
    changed,               \* the pins that differed from prev_state when a level last changed
    clock,                 \* time.time(), ms
    last_time,             \* last_time of App.run
    paces,                 \* delta_time, work, sleep_time and sleep of each iteration timed
    widget                 \* a TextInputWidget on its own, as tests/test_text_input.py builds it

vars == <<screens, initial_screen, current_screen_name, current_screen, running, pc,
          next_screen, frame, presses, db, selected_habit_data, load_history,
          edit_loaded, view, edit, menu, settings, others, event_queue, raised, polled,
          pins, prev_state, changed, clock, last_time, paces, widget>>

\* the input source's variables, and the loop's clock
keyboardVars == <<event_queue, raised>>

gpioVars == <<pins, prev_state, changed>>

clockVars == <<clock, last_time, paces>>

-----------------------------------------------------------------------------
(* Bounds of the exploration *)

\* press events the input source produces in one run
MaxPresses == 7

\* press events in a run over the registry of main()
MainPresses == 4

\* lines the README wraps to on the about screen
AboutLines == 12

\* press events in a run from the habit checker to the stats
CheckerPresses == 6

\* raw events the window system posts to pygame's queue in one run
KeyEvents == 3

\* level changes of GPIO pins in one run
GpioToggles == 3

\* iterations of the loop that are timed
MaxFrames == 3

\* events handed to the widget on its own
WidgetEvents == 5

\* press events of a run on the stats screen alone
StatsPresses == 17

\* press events of a run of main() from home
HomePresses == 7

\* iterations allowed to a way back to home
EscapeBound == 11

-----------------------------------------------------------------------------
(* Python values *)

None == "None"

NoId == 0

Truthy(s) == s # None /\ s # ""

Get(d, k, default) == IF k \in DOMAIN d THEN d[k] ELSE default

Max2(a, b) == IF a >= b THEN a ELSE b

Min2(a, b) == IF a <= b THEN a ELSE b

\* str(n) for 0 <= n <= 99
DigitChars == <<"0", "1", "2", "3", "4", "5", "6", "7", "8", "9">>

StrOfInt(n) ==
    IF n < 10 THEN <<DigitChars[n + 1]>>
    ELSE <<DigitChars[(n \div 10) + 1], DigitChars[(n % 10) + 1]>>

DigitValue(c) == CHOOSE d \in 0..9 : DigitChars[d + 1] = c

IsDigits(s) == Len(s) > 0 /\ \A i \in 1..Len(s) : \E d \in 0..9 : DigitChars[d + 1] = s[i]

RECURSIVE IntOfStr(_)
\* int(s) for a string of decimal digits
IntOfStr(s) ==
    IF Len(s) = 0 THEN 0
    ELSE 10 * IntOfStr(SubSeq(s, 1, Len(s) - 1)) + DigitValue(s[Len(s)])

\* the positions of "/" in s
SlashPositions(s) == {i \in 1..Len(s) : s[i] = "/"}

\* s.split('/')[0] and s.split('/')[1] for s containing "/"
SplitFirst(s) ==
    LET p == CHOOSE i \in SlashPositions(s) : \A j \in SlashPositions(s) : i <= j
    IN  SubSeq(s, 1, p - 1)

SplitSecond(s) ==
    LET p == CHOOSE i \in SlashPositions(s) : \A j \in SlashPositions(s) : i <= j
        rest == SubSeq(s, p + 1, Len(s))
        q == IF SlashPositions(rest) = {} THEN Len(rest) + 1
             ELSE CHOOSE i \in SlashPositions(rest) : \A j \in SlashPositions(rest) : i <= j
    IN  SubSeq(rest, 1, q - 1)

DayStr == <<"d", "a", "y">>

WeekStr == <<"w", "e", "e", "k">>

\* f"{freq_number}/{freq_period}"
FormatRecurrence(num, period) == StrOfInt(num) \o <<"/">> \o period

-----------------------------------------------------------------------------
(* input/input_base.py *)

InputTypes == {"UP", "DOWN", "LEFT", "RIGHT", "BUTTON_A", "BUTTON_B", "BUTTON_C", "QUIT"}

ScreenInputTypes == InputTypes \ {"QUIT"}

InputEvent(t, p) == [input_type |-> t, pressed |-> p]

\* poll() returned None
NoEvent == [input_type |-> "NONE", pressed |-> FALSE]

-----------------------------------------------------------------------------
(* input/keyboard_input.py *)

\* KeyboardInput.key_map, by the name of the pygame key constant
key_map ==
    [K_w |-> "UP", K_s |-> "DOWN", K_a |-> "LEFT", K_d |-> "RIGHT",
     K_p |-> "BUTTON_A", K_l |-> "BUTTON_B", K_m |-> "BUTTON_C"]

\* a pygame event: its type and, for a key event, its key
RawEvent(type, key) == [type |-> type, key |-> key]

\* what the body of poll's loop returns for the raw event e: <<ev>> for a return of
\* ev, <<>> where the loop goes on to the next raw event
Keyboard_translate(e) ==
    IF e.type = "QUIT" THEN <<InputEvent("QUIT", TRUE)>>
    ELSE IF e.type = "KEYDOWN" /\ e.key \in DOMAIN key_map
    THEN <<InputEvent(key_map[e.key], TRUE)>>
    ELSE IF e.type = "KEYUP" /\ e.key \in DOMAIN key_map
    THEN <<InputEvent(key_map[e.key], FALSE)>>
    ELSE <<>>

RECURSIVE Keyboard_first(_)
\* the loop of poll over the raw events pygame.event.get() returned
Keyboard_first(events) ==
    IF Len(events) = 0 THEN NoEvent
    ELSE IF Len(Keyboard_translate(events[1])) > 0 THEN Keyboard_translate(events[1])[1]
    ELSE Keyboard_first(Tail(events))

\* poll(): the event returned and the queue left; pygame.event.get() takes every
\* raw event off the queue
Keyboard_poll(queue) == [event |-> Keyboard_first(queue), queue |-> <<>>]

RECURSIVE Keyboard_events(_)
\* the input events the raw events stand for, in order
Keyboard_events(events) ==
    IF Len(events) = 0 THEN <<>>
    ELSE Keyboard_translate(events[1]) \o Keyboard_events(Tail(events))

-----------------------------------------------------------------------------
(* input/gpio_input.py *)

\* GPIO.LOW and GPIO.HIGH
LOW == 0

HIGH == 1

\* the keys of pin_map, in the order of the dict
PinOrder == <<6, 19, 5, 26, 13, 21, 20, 16>>

Pins == {PinOrder[i] : i \in 1..Len(PinOrder)}

pin_map ==
    [pin \in Pins |->
        CASE pin = 6 -> "LEFT"
          [] pin = 19 -> "RIGHT"
          [] pin = 5 -> "DOWN"
          [] pin = 26 -> "UP"
          [] pin = 13 -> "BUTTON_A"
          [] pin = 21 -> "BUTTON_A"
          [] pin = 20 -> "BUTTON_B"
          [] pin = 16 -> "BUTTON_C"]

GPIO_poll_KeepsPrevState(prev, levels) ==
    LET differing == {i \in 1..Len(PinOrder) : levels[PinOrder[i]] # prev[PinOrder[i]]}
        pin == PinOrder[CHOOSE i \in differing : \A j \in differing : i <= j]
    IN  IF differing = {} THEN [prev_state |-> prev, event |-> NoEvent, pin |-> 0]
        ELSE [prev_state |-> prev,
              event |-> InputEvent(pin_map[pin], levels[pin] = LOW),
              pin |-> pin]

\* poll() with the pins at levels: prev_state after it, the event returned and the
\* pin it stands for (0 for a return of None)
GPIO_poll(prev, levels) ==
    LET differing == {i \in 1..Len(PinOrder) : levels[PinOrder[i]] # prev[PinOrder[i]]}
        pin == PinOrder[CHOOSE i \in differing : \A j \in differing : i <= j]
    IN  IF differing = {} THEN [prev_state |-> prev, event |-> NoEvent, pin |-> 0]
        ELSE [prev_state |-> [prev EXCEPT ![pin] = levels[pin]],
              event |-> InputEvent(pin_map[pin], levels[pin] = LOW),
              pin |-> pin]

-----------------------------------------------------------------------------
(* data/db.py *)

HabitRow(id, name, type, points, category, target, grace, recurrence, active) ==
    [id |-> id, name |-> name, type |-> type, points_per |-> points,
     category |-> category, target_time |-> target, grace_period |-> grace,
     recurrence |-> recurrence, active |-> active]

\* int(active)
IntOfBool(b) == IF b THEN 1 ELSE 0

\* bool(h['active'])
BoolOfInt(i) == i # 0

\* INSERT INTO habits: the row gets the next AUTOINCREMENT id and the column
\* defaults active = 1; rows are read back ORDER BY created_at, the order of insertion
add_habit(d, name, habit_type, points_per, category, recurrence) ==
    [d EXCEPT !.habits = Append(@, HabitRow(d.next_id, name, habit_type, points_per,
                                             category, None, 60, recurrence, 1)),
              !.next_id = @ + 1]

\* the id add_habit returns (cursor.lastrowid)
add_habit_id(d) == d.next_id

\* UPDATE habits SET ... WHERE id = ?; target_time and grace_period take the
\* defaults of the call (None, 60)
update_habit(d, habit_id, name, habit_type, points_per, category, recurrence, active) ==
    [d EXCEPT !.habits =
        [i \in 1..Len(@) |->
            IF @[i].id = habit_id
            THEN HabitRow(habit_id, name, habit_type, points_per, category, None, 60,
                          recurrence, IntOfBool(active))
            ELSE @[i]]]

delete_habit_KeepsLogs(d, habit_id) ==
    LET Keep(h) == h.id # habit_id
    IN  [d EXCEPT !.habits = SelectSeq(@, Keep)]

\* DELETE FROM habit_logs WHERE habit_id = ?; DELETE FROM habits WHERE id = ?
delete_habit(d, habit_id) ==
    LET Keep(h) == h.id # habit_id
    IN  [d EXCEPT !.logs = {l \in @ : l.habit_id # habit_id},
                  !.habits = SelectSeq(@, Keep)]

\* SELECT * FROM habits WHERE id = ?: <<>> for None, <<row>> for a row
get_habit_by_id(d, habit_id) ==
    LET Is(h) == h.id = habit_id
    IN  SelectSeq(d.habits, Is)

log_habit_completion_Inserts(d, habit_id, date, completed, skipped, quantity, points_earned) ==
    [d EXCEPT !.logs =
        @ \cup {[habit_id |-> habit_id, date |-> date, completed |-> IntOfBool(completed),
                 skipped |-> IntOfBool(skipped), quantity |-> quantity,
                 points_earned |-> points_earned]}]

\* INSERT OR REPLACE INTO habit_logs, under UNIQUE(habit_id, date)
log_habit_completion(d, habit_id, date, completed, skipped, quantity, points_earned) ==
    [d EXCEPT !.logs =
        {l \in @ : ~(l.habit_id = habit_id /\ l.date = date)}
        \cup {[habit_id |-> habit_id, date |-> date, completed |-> IntOfBool(completed),
               skipped |-> IntOfBool(skipped), quantity |-> quantity,
               points_earned |-> points_earned]}]

\* the logs of a habit with start_date <= date <= end_date
get_habit_logs(d, habit_id, start_date, end_date) ==
    {l \in d.logs : l.habit_id = habit_id /\ l.date >= start_date /\ l.date <= end_date}

RECURSIVE SumOf(_, _)
\* SUM(column) over the rows of S
SumOf(S, column) ==
    IF S = {} THEN 0
    ELSE LET row == CHOOSE r \in S : TRUE
         IN  row[column] + SumOf(S \ {row}, column)

RECURSIVE Ascending(_)
\* the numbers of S in ascending order (ORDER BY)
Ascending(S) ==
    IF S = {} THEN <<>>
    ELSE LET least == CHOOSE x \in S : \A y \in S : x <= y
         IN  <<least>> \o Ascending(S \ {least})

\* SELECT date, SUM(points_earned) FROM habit_logs WHERE date in the range
\* GROUP BY date ORDER BY date
get_points_by_day(d, start_date, end_date) ==
    LET in_range == {l \in d.logs : l.date >= start_date /\ l.date <= end_date}
        dates == Ascending({l.date : l \in in_range})
    IN  [i \in 1..Len(dates) |->
            [date |-> dates[i],
             total_points |-> SumOf({l \in in_range : l.date = dates[i]}, "points_earned")]]

\* the rows of habits joined with their logs in the range, grouped by habit: the
\* count of completed logs and the count of logs; a habit with no log in the range
\* has no row (the WHERE clause is on the log's date). The rows are kept as a set:
\* their ORDER BY h.name has no part in what is computed from them
get_completion_stats(d, start_date, end_date) ==
    LET LogsOf(h) == {l \in d.logs : /\ l.habit_id = h.id
                                      /\ l.date >= start_date
                                      /\ l.date <= end_date}
    IN  {[habit_id |-> d.habits[i].id,
          habit_name |-> d.habits[i].name,
          completed_count |-> Cardinality({l \in LogsOf(d.habits[i]) : l.completed = 1}),
          total_days |-> Cardinality(LogsOf(d.habits[i]))] :
         i \in {j \in 1..Len(d.habits) : LogsOf(d.habits[j]) # {}}}

get_all_habits(d, active_only) ==
    LET Active(h) == h.active = 1
    IN  IF active_only THEN SelectSeq(d.habits, Active) ELSE d.habits

-----------------------------------------------------------------------------
(* game/text_input.py *)

CHARSET == <<"A", "B", "C", "D", "E", "F", "G", "H", "I", "J", "K", "L", "M",
             "N", "O", "P", "Q", "R", "S", "T", "U", "V", "W", "X", "Y", "Z",
             "a", "b", "c", "d", "e", "f", "g", "h", "i", "j", "k", "l", "m",
             "n", "o", "p", "q", "r", "s", "t", "u", "v", "w", "x", "y", "z",
             " ", "0", "1", "2", "3", "4", "5", "6", "7", "8", "9", ".", "_", "-">>

\* SECTION_*_START, in the order of the sections list
Sections == <<0, 26, 52, 53, 63>>

\* cursor blink period, ms
BlinkDelay == 500

TextInputWidget(max_length) ==
    [max_length |-> max_length, value |-> <<>>, current_char_index |-> 0,
     active |-> FALSE, cursor_blink_timer |-> 0, show_cursor |-> TRUE]

Text_activate(w) == [w EXCEPT !.active = TRUE, !.value = <<>>, !.current_char_index = 0]

Text_deactivate(w) == [w EXCEPT !.active = FALSE]

\* CHARSET[current_char_index] (0-based)
Text_get_current_char(w) == CHARSET[w.current_char_index + 1]

Text_get_next_section_start(w) ==
    LET later == {i \in 1..Len(Sections) : w.current_char_index < Sections[i]}
    IN  IF later = {} THEN Sections[1]
        ELSE Sections[CHOOSE i \in later : \A j \in later : i <= j]

Text_get_prev_section_start(w) ==
    LET reached == {i \in 1..Len(Sections) : w.current_char_index >= Sections[i]}
        current_section == (CHOOSE i \in reached : \A j \in reached : i >= j) - 1
        prev_section == (current_section - 1 + Len(Sections)) % Len(Sections)
    IN  Sections[prev_section + 1]

Text_handle_input_NoLimit(w, ev) ==
    IF ~w.active \/ ~ev.pressed THEN [w |-> w, result |-> <<>>]
    ELSE CASE ev.input_type = "BUTTON_A" ->
                [w |-> [w EXCEPT !.value = Append(@, Text_get_current_char(w))],
                 result |-> <<>>]
           [] ev.input_type = "BUTTON_B" ->
                [w |-> IF Len(w.value) > 0
                       THEN [w EXCEPT !.value = SubSeq(@, 1, Len(@) - 1)]
                       ELSE w,
                 result |-> <<>>]
           [] ev.input_type = "BUTTON_C" ->
                [w |-> Text_deactivate(w), result |-> <<w.value>>]
           [] OTHER -> [w |-> w, result |-> <<>>]

\* the widget after handle_input(ev), and the value it returned: <<>> for None,
\* <<v>> for the string v
Text_handle_input(w, ev) ==
    IF ~w.active \/ ~ev.pressed THEN [w |-> w, result |-> <<>>]
    ELSE CASE ev.input_type = "RIGHT" ->
                [w |-> [w EXCEPT !.current_char_index = (@ + 1) % Len(CHARSET)],
                 result |-> <<>>]
           [] ev.input_type = "LEFT" ->
                [w |-> [w EXCEPT !.current_char_index = (@ - 1 + Len(CHARSET)) % Len(CHARSET)],
                 result |-> <<>>]
           [] ev.input_type = "DOWN" ->
                [w |-> [w EXCEPT !.current_char_index = Text_get_next_section_start(w)],
                 result |-> <<>>]
           [] ev.input_type = "UP" ->
                [w |-> [w EXCEPT !.current_char_index = Text_get_prev_section_start(w)],
                 result |-> <<>>]
           [] ev.input_type = "BUTTON_A" ->
                [w |-> IF Len(w.value) < w.max_length
                       THEN [w EXCEPT !.value = Append(@, Text_get_current_char(w))]
                       ELSE w,
                 result |-> <<>>]
           [] ev.input_type = "BUTTON_B" ->
                [w |-> IF Len(w.value) > 0
                       THEN [w EXCEPT !.value = SubSeq(@, 1, Len(@) - 1)]
                       ELSE w,
                 result |-> <<>>]
           [] ev.input_type = "BUTTON_C" ->
                [w |-> Text_deactivate(w), result |-> <<w.value>>]
           [] OTHER -> [w |-> w, result |-> <<>>]

Text_update(w, dt) ==
    IF ~w.active THEN w
    ELSE IF w.cursor_blink_timer + dt >= BlinkDelay
         THEN [w EXCEPT !.show_cursor = ~@, !.cursor_blink_timer = 0]
         ELSE [w EXCEPT !.cursor_blink_timer = @ + dt]

-----------------------------------------------------------------------------
(* game/view_habits_screen.py *)

\* scroll_delay, ms
ScrollDelay == 150

\* one entry of ViewHabitsScreen.habits, from a row of the habits table
ViewEntry(h) ==
    LET recurrence == Get(h, "recurrence", <<"d", "a", "i", "l", "y">>)
        slashed == SlashPositions(recurrence) # {}
    IN  [id |-> h.id,
         name |-> h.name,
         points |-> h.points_per,
         freq_num |-> IF slashed THEN IntOfStr(SplitFirst(recurrence)) ELSE 1,
         freq_period |-> IF slashed THEN SplitSecond(recurrence) ELSE DayStr,
         active |-> BoolOfInt(h.active),
         reminder |-> FALSE]

View_load_habits(v, d) ==
    LET db_habits == get_all_habits(d, FALSE)
    IN  [v EXCEPT !.habits = [i \in 1..Len(db_habits) |-> ViewEntry(db_habits[i])]]

ViewHabitsScreen(d) ==
    View_load_habits(
        [habits |-> <<>>, selected_index |-> -1, scroll_offset |-> 0,
         scroll_timer |-> 0, show_delete_popup |-> FALSE, popup_selected_button |-> 0],
        d)

View_reload_habits_KeepsList(v, d) ==
    IF v.selected_index >= Len(v.habits)
    THEN [v EXCEPT !.selected_index = -1]
    ELSE v

View_reload_habits(v, d) ==
    LET v1 == View_load_habits(v, d)
    IN  IF v1.selected_index >= Len(v1.habits)
        THEN [v1 EXCEPT !.selected_index = -1]
        ELSE v1

View_handle_popup_CancelDeletes(v, d, ev) ==
    CASE ev.input_type = "LEFT" ->
            [view |-> [v EXCEPT !.popup_selected_button = 0], db |-> d]
      [] ev.input_type = "RIGHT" ->
            [view |-> [v EXCEPT !.popup_selected_button = 1], db |-> d]
      [] ev.input_type = "BUTTON_A" ->
            LET d1 == delete_habit(d, v.habits[v.selected_index + 1].id)
                v1 == View_load_habits(v, d1)
                v2 == IF v1.selected_index >= Len(v1.habits)
                      THEN [v1 EXCEPT !.selected_index = Len(v1.habits) - 1]
                      ELSE v1
            IN  [view |-> [v2 EXCEPT !.show_delete_popup = FALSE,
                                     !.popup_selected_button = 0],
                 db |-> d1]
      [] ev.input_type = "BUTTON_B" ->
            [view |-> [v EXCEPT !.show_delete_popup = FALSE, !.popup_selected_button = 0],
             db |-> d]
      [] OTHER -> [view |-> v, db |-> d]

View_handle_popup_KeepsCursor(v, d, ev) ==
    CASE ev.input_type = "LEFT" ->
            [view |-> [v EXCEPT !.popup_selected_button = 0], db |-> d]
      [] ev.input_type = "RIGHT" ->
            [view |-> [v EXCEPT !.popup_selected_button = 1], db |-> d]
      [] ev.input_type = "BUTTON_A" ->
            LET deletes == /\ v.popup_selected_button = 0
                           /\ v.selected_index >= 0
                           /\ v.selected_index < Len(v.habits)
                d1 == IF deletes THEN delete_habit(d, v.habits[v.selected_index + 1].id)
                      ELSE d
                v1 == IF deletes THEN View_load_habits(v, d1) ELSE v
                v2 == v1
            IN  [view |-> [v2 EXCEPT !.show_delete_popup = FALSE,
                                     !.popup_selected_button = 0],
                 db |-> d1]
      [] ev.input_type = "BUTTON_B" ->
            [view |-> [v EXCEPT !.show_delete_popup = FALSE, !.popup_selected_button = 0],
             db |-> d]
      [] OTHER -> [view |-> v, db |-> d]

\* the popup branch of handle_input (show_delete_popup is true)
View_handle_popup(v, d, ev) ==
    CASE ev.input_type = "LEFT" ->
            [view |-> [v EXCEPT !.popup_selected_button = 0], db |-> d]
      [] ev.input_type = "RIGHT" ->
            [view |-> [v EXCEPT !.popup_selected_button = 1], db |-> d]
      [] ev.input_type = "BUTTON_A" ->
            LET deletes == /\ v.popup_selected_button = 0
                           /\ v.selected_index >= 0
                           /\ v.selected_index < Len(v.habits)
                d1 == IF deletes THEN delete_habit(d, v.habits[v.selected_index + 1].id)
                      ELSE d
                v1 == IF deletes THEN View_load_habits(v, d1) ELSE v
                v2 == IF deletes /\ v1.selected_index >= Len(v1.habits)
                      THEN [v1 EXCEPT !.selected_index = Len(v1.habits) - 1]
                      ELSE v1
            IN  [view |-> [v2 EXCEPT !.show_delete_popup = FALSE,
                                     !.popup_selected_button = 0],
                 db |-> d1]
      [] ev.input_type = "BUTTON_B" ->
            [view |-> [v EXCEPT !.show_delete_popup = FALSE, !.popup_selected_button = 0],
             db |-> d]
      [] OTHER -> [view |-> v, db |-> d]

View_select_NewKeepsHandoff(v, d, handoff) ==
    IF v.selected_index = -1
    THEN [view |-> v, db |-> d, handoff |-> handoff, wrote |-> FALSE, ret |-> "edit_habit"]
    ELSE [view |-> v, db |-> d, handoff |-> <<v.habits[v.selected_index + 1]>>,
          wrote |-> TRUE, ret |-> "edit_habit"]

\* the BUTTON_A branch of handle_input: NEW HABIT, or the habit selected
View_select(v, d, handoff) ==
    IF v.selected_index = -1
    THEN [view |-> v, db |-> d, handoff |-> <<>>, wrote |-> TRUE, ret |-> "edit_habit"]
    ELSE [view |-> v, db |-> d, handoff |-> <<v.habits[v.selected_index + 1]>>,
          wrote |-> TRUE, ret |-> "edit_habit"]

\* the screen, the store and the class variable selected_habit_data after
\* handle_input(ev), the name it returned, and whether it assigned the class variable
View_handle_input(v, d, handoff, ev) ==
    LET stay(v1, d1) ==
            [view |-> v1, db |-> d1, handoff |-> handoff, wrote |-> FALSE, ret |-> None]
    IN  IF ~ev.pressed THEN stay(v, d)
        ELSE IF v.show_delete_popup
        THEN LET r == View_handle_popup(v, d, ev) IN stay(r.view, r.db)
        ELSE CASE ev.input_type = "UP" ->
                    stay([v EXCEPT !.selected_index =
                            IF @ - 1 < -1 THEN Len(v.habits) - 1 ELSE @ - 1], d)
               [] ev.input_type = "DOWN" ->
                    stay([v EXCEPT !.selected_index =
                            IF @ + 1 >= Len(v.habits) THEN -1 ELSE @ + 1], d)
               [] ev.input_type = "BUTTON_A" -> View_select(v, d, handoff)
               [] ev.input_type = "BUTTON_C" ->
                    stay(IF v.selected_index >= 0
                         THEN [v EXCEPT !.show_delete_popup = TRUE,
                                        !.popup_selected_button = 0]
                         ELSE v, d)
               [] ev.input_type = "LEFT" ->
                    [view |-> v, db |-> d, handoff |-> handoff, wrote |-> FALSE,
                     ret |-> "menu"]
               [] OTHER -> stay(v, d)

\* len(habit_name) > 8 scrolls
ViewMaxDisplay == 8

View_update(v, dt) ==
    IF v.selected_index >= 0 /\ v.selected_index < Len(v.habits)
    THEN LET habit_name == v.habits[v.selected_index + 1].name
         IN  IF Len(habit_name) > ViewMaxDisplay
             THEN IF v.scroll_timer + dt >= ScrollDelay
                  THEN [v EXCEPT !.scroll_timer = 0,
                                 !.scroll_offset = (@ + 1) % (Len(habit_name) + 1)]
                  ELSE [v EXCEPT !.scroll_timer = @ + dt]
             ELSE [v EXCEPT !.scroll_offset = 0, !.scroll_timer = 0]
    ELSE [v EXCEPT !.scroll_offset = 0, !.scroll_timer = 0]

-----------------------------------------------------------------------------
(* game/edit_habit_screen.py *)

\* len(FIELD_NAMES)
NumFields == 6

\* name scrolls when len(name) > 6
EditMaxDisplay == 6

\* TextInputWidget(max_length=20)
NameMaxLength == 20

\* the field values load_habit_data and __init__ take from Optional[dict] habit_data;
\* freq_keys are the keys tried for freq_number, in order
FormOf(habit_data, freq_keys) ==
    IF Len(habit_data) > 0
    THEN LET h == habit_data[1]
             present == {i \in 1..Len(freq_keys) : freq_keys[i] \in DOMAIN h}
         IN  [name |-> Get(h, "name", <<>>),
              freq_number |-> IF present = {} THEN 1
                              ELSE h[freq_keys[CHOOSE i \in present : \A j \in present : i <= j]],
              freq_period |-> Get(h, "freq_period", DayStr),
              points |-> Get(h, "points", 5),
              is_good |-> Get(h, "is_good", TRUE),
              active |-> Get(h, "active", TRUE),
              reminder |-> Get(h, "reminder", FALSE),
              habit_id |-> Get(h, "id", NoId)]
    ELSE [name |-> <<>>, freq_number |-> 1, freq_period |-> DayStr, points |-> 5,
          is_good |-> TRUE, active |-> TRUE, reminder |-> FALSE, habit_id |-> NoId]

EditHabitScreen(habit_data) ==
    LET f == FormOf(habit_data, <<"freq_number">>)
    IN  [habit_id |-> f.habit_id,
         text_input |-> TextInputWidget(NameMaxLength),
         name |-> f.name, freq_number |-> f.freq_number, freq_period |-> f.freq_period,
         points |-> f.points, is_good |-> f.is_good, active |-> f.active,
         reminder |-> f.reminder,
         selected_field |-> 0,
         editing_name |-> FALSE, editing_freq |-> FALSE, freq_edit_stage |-> 0,
         editing_points |-> FALSE,
         selected_button |-> None,
         scroll_offset |-> 0, scroll_timer |-> 0]

Edit_load_habit_data_KeepsCursor(e, habit_data) ==
    LET f == FormOf(habit_data, <<"freq_num", "freq_number">>)
    IN  [e EXCEPT !.name = f.name, !.freq_number = f.freq_number,
                  !.freq_period = f.freq_period, !.points = f.points,
                  !.is_good = f.is_good, !.active = f.active, !.reminder = f.reminder,
                  !.habit_id = f.habit_id,
                  !.editing_name = FALSE, !.editing_freq = FALSE,
                  !.freq_edit_stage = 0, !.editing_points = FALSE,
                  !.text_input.value = f.name]

Edit_load_habit_data_KeepsId(e, habit_data) ==
    LET f == FormOf(habit_data, <<"freq_num", "freq_number">>)
    IN  [e EXCEPT !.name = f.name, !.freq_number = f.freq_number,
                  !.freq_period = f.freq_period, !.points = f.points,
                  !.is_good = f.is_good, !.active = f.active, !.reminder = f.reminder,
                  !.habit_id = IF Len(habit_data) > 0 THEN f.habit_id ELSE @,
                  !.selected_field = 0,
                  !.editing_name = FALSE, !.editing_freq = FALSE,
                  !.freq_edit_stage = 0, !.editing_points = FALSE,
                  !.selected_button = None,
                  !.text_input.value = f.name]

\* the screen after load_habit_data(habit_data)
Edit_load_habit_data(e, habit_data) ==
    LET f == FormOf(habit_data, <<"freq_num", "freq_number">>)
    IN  [e EXCEPT !.name = f.name, !.freq_number = f.freq_number,
                  !.freq_period = f.freq_period, !.points = f.points,
                  !.is_good = f.is_good, !.active = f.active, !.reminder = f.reminder,
                  !.habit_id = f.habit_id,
                  !.selected_field = 0,
                  !.editing_name = FALSE, !.editing_freq = FALSE,
                  !.freq_edit_stage = 0, !.editing_points = FALSE,
                  !.selected_button = None,
                  !.text_input.value = f.name]

Edit_save_habit_AlwaysAdds(e, d) ==
    [edit |-> [e EXCEPT !.habit_id = add_habit_id(d)],
     db |-> add_habit(d, e.name, "binary", e.points,
                      IF e.is_good THEN "good" ELSE "bad",
                      FormatRecurrence(e.freq_number, e.freq_period))]

\* the screen and the store after save_habit()
Edit_save_habit(e, d) ==
    LET recurrence == FormatRecurrence(e.freq_number, e.freq_period)
        category == IF e.is_good THEN "good" ELSE "bad"
    IN  IF e.habit_id = NoId
        THEN [edit |-> [e EXCEPT !.habit_id = add_habit_id(d)],
              db |-> add_habit(d, e.name, "binary", e.points, category, recurrence)]
        ELSE [edit |-> e,
              db |-> update_habit(d, e.habit_id, e.name, "binary", e.points, category,
                                  recurrence, e.active)]

\* FREQ_PERIODS, and FREQ_PERIODS.index(p)
FREQ_PERIODS == <<DayStr, WeekStr>>

PeriodIndex(p) == (CHOOSE i \in 1..Len(FREQ_PERIODS) : FREQ_PERIODS[i] = p) - 1

\* the branch of handle_input taken while editing_name
Edit_handle_name(e, ev) ==
    LET r == Text_handle_input(e.text_input, ev)
    IN  IF ev.input_type = "BUTTON_C"
        THEN [e EXCEPT !.name = r.w.value, !.editing_name = FALSE,
                       !.text_input = Text_deactivate(r.w)]
        ELSE IF Len(r.result) > 0
        THEN [e EXCEPT !.name = r.result[1], !.editing_name = FALSE, !.text_input = r.w]
        ELSE [e EXCEPT !.text_input = r.w]

\* the LEFT/RIGHT branch of handle_input
Edit_handle_left_right(e, ev) ==
    LET direction == IF ev.input_type = "RIGHT" THEN 1 ELSE -1
    IN  IF e.selected_button # None
        THEN [e EXCEPT !.selected_button = IF ev.input_type = "LEFT" THEN "save" ELSE "cancel"]
        ELSE IF e.editing_freq
        THEN IF e.freq_edit_stage = 0
             THEN [e EXCEPT !.freq_number = Max2(1, Min2(6, @ + direction))]
             ELSE [e EXCEPT !.freq_period =
                      FREQ_PERIODS[((PeriodIndex(@) + direction + Len(FREQ_PERIODS))
                                    % Len(FREQ_PERIODS)) + 1]]
        ELSE IF e.editing_points
        THEN [e EXCEPT !.points = Max2(1, Min2(20, @ + direction))]
        ELSE e

Edit_handle_up_down_WhileEditing(e, ev) ==
    IF ev.input_type = "UP"
    THEN IF e.selected_button # None
         THEN [e EXCEPT !.selected_button = None, !.selected_field = NumFields - 1]
         ELSE [e EXCEPT !.selected_field = (@ - 1 + NumFields) % NumFields]
    ELSE IF e.selected_field = NumFields - 1
         THEN [e EXCEPT !.selected_button = "save", !.selected_field = -1]
         ELSE IF e.selected_button = None
         THEN [e EXCEPT !.selected_field = (@ + 1) % NumFields]
         ELSE e

\* the UP and DOWN branches of handle_input
Edit_handle_up_down(e, ev) ==
    IF e.editing_freq \/ e.editing_points \/ e.editing_name THEN e
    ELSE IF ev.input_type = "UP"
    THEN IF e.selected_button # None
         THEN [e EXCEPT !.selected_button = None, !.selected_field = NumFields - 1]
         ELSE [e EXCEPT !.selected_field = (@ - 1 + NumFields) % NumFields]
    ELSE IF e.selected_field = NumFields - 1
         THEN [e EXCEPT !.selected_button = "save", !.selected_field = -1]
         ELSE IF e.selected_button = None
         THEN [e EXCEPT !.selected_field = (@ + 1) % NumFields]
         ELSE e

\* the field part of the BUTTON_A branch (no button is selected)
Edit_handle_field(e) ==
    CASE e.selected_field = 0 ->
            [e EXCEPT !.editing_name = TRUE,
                      !.text_input = [Text_activate(@) EXCEPT !.value = e.name]]
      [] e.selected_field = 1 ->
            IF ~e.editing_freq
            THEN [e EXCEPT !.editing_freq = TRUE, !.freq_edit_stage = 0]
            ELSE IF e.freq_edit_stage = 0
            THEN [e EXCEPT !.freq_edit_stage = 1]
            ELSE [e EXCEPT !.editing_freq = FALSE, !.freq_edit_stage = 0]
      [] e.selected_field = 2 -> [e EXCEPT !.editing_points = ~@]
      [] e.selected_field = 3 -> [e EXCEPT !.is_good = ~@]
      [] e.selected_field = 4 -> [e EXCEPT !.active = ~@]
      [] e.selected_field = 5 -> [e EXCEPT !.reminder = ~@]
      [] OTHER -> e

Edit_handle_button_SavesEmptyName(e, d) ==
    IF e.selected_button = "save"
    THEN LET s == Edit_save_habit(e, d)
         IN  [edit |-> s.edit, db |-> s.db, ret |-> "view_habits"]
    ELSE [edit |-> e, db |-> d, ret |-> "view_habits"]

Edit_handle_button_CancelSaves(e, d) ==
    IF e.selected_button = "save" /\ Len(e.name) = 0
    THEN [edit |-> e, db |-> d, ret |-> None]
    ELSE LET s == Edit_save_habit(e, d)
         IN  [edit |-> s.edit, db |-> s.db, ret |-> "view_habits"]

\* the BUTTON_A branch of handle_input while a button is selected
Edit_handle_button(e, d) ==
    IF e.selected_button = "save"
    THEN IF Len(e.name) > 0
         THEN LET s == Edit_save_habit(e, d)
              IN  [edit |-> s.edit, db |-> s.db, ret |-> "view_habits"]
         ELSE [edit |-> e, db |-> d, ret |-> None]
    ELSE [edit |-> e, db |-> d, ret |-> "view_habits"]

Edit_handle_input_BackOnB(e, d, ev) ==
    LET stay(e1) == [edit |-> e1, db |-> d, ret |-> None]
    IN  IF ~ev.pressed THEN stay(e)
        ELSE IF ev.input_type = "BUTTON_B" THEN [edit |-> e, db |-> d, ret |-> "view_habits"]
        ELSE IF e.editing_name THEN stay(Edit_handle_name(e, ev))
        ELSE CASE ev.input_type \in {"LEFT", "RIGHT"} -> stay(Edit_handle_left_right(e, ev))
               [] ev.input_type \in {"UP", "DOWN"} -> stay(Edit_handle_up_down(e, ev))
               [] ev.input_type = "BUTTON_A" ->
                    IF e.selected_button \in {"save", "cancel"}
                    THEN Edit_handle_button(e, d)
                    ELSE stay(Edit_handle_field(e))
               [] OTHER -> stay(e)

\* the screen and the store after handle_input(ev), and the name it returned
Edit_handle_input(e, d, ev) ==
    LET stay(e1) == [edit |-> e1, db |-> d, ret |-> None]
    IN  IF ~ev.pressed THEN stay(e)
        ELSE IF e.editing_name THEN stay(Edit_handle_name(e, ev))
        ELSE CASE ev.input_type \in {"LEFT", "RIGHT"} -> stay(Edit_handle_left_right(e, ev))
               [] ev.input_type \in {"UP", "DOWN"} -> stay(Edit_handle_up_down(e, ev))
               [] ev.input_type = "BUTTON_A" ->
                    IF e.selected_button \in {"save", "cancel"}
                    THEN Edit_handle_button(e, d)
                    ELSE stay(Edit_handle_field(e))
               [] OTHER -> stay(e)

Edit_update(e, dt) ==
    LET e1 == IF e.editing_name
              THEN [e EXCEPT !.text_input = Text_update(@, dt)]
              ELSE e
    IN  IF e1.selected_field = 0 /\ ~e1.editing_name /\ Len(e1.name) > EditMaxDisplay
        THEN IF e1.scroll_timer + dt >= ScrollDelay
             THEN [e1 EXCEPT !.scroll_timer = 0,
                             !.scroll_offset = (@ + 1) % (Len(e1.name) + 1)]
             ELSE [e1 EXCEPT !.scroll_timer = @ + dt]
        ELSE [e1 EXCEPT !.scroll_offset = 0, !.scroll_timer = 0]

-----------------------------------------------------------------------------
(* game/speech_bubble.py *)

\* Config.SPEECH_BUBBLE_FRAME_DELAY, ms
BubbleFrameDelay == 100

\* SpeechBubbleWidget.TEXT_MAX_WIDTH
BubbleTextMaxWidth == 82

\* len("Hello World")
HelloLen == 11

\* text is kept by its length, the only thing update reads of it
SpeechBubbleWidget ==
    [state |-> "hidden", current_frame |-> 0, frame_timer |-> 0, text_len |-> 0,
     scroll_offset |-> 0, scroll_timer |-> 0]

Bubble_show(b, text_len) ==
    IF b.state = "hidden"
    THEN [b EXCEPT !.text_len = text_len, !.state = "animating_in", !.current_frame = 4,
                   !.frame_timer = 0, !.scroll_offset = 0, !.scroll_timer = 0]
    ELSE b

Bubble_hide(b) ==
    IF b.state = "showing"
    THEN [b EXCEPT !.state = "animating_out", !.current_frame = 0, !.frame_timer = 0]
    ELSE b

Bubble_toggle_Interrupts(b, text_len) ==
    IF b.state = "hidden" THEN Bubble_show(b, text_len)
    ELSE [b EXCEPT !.state = "animating_out", !.current_frame = 0, !.frame_timer = 0]

Bubble_toggle(b, text_len) ==
    IF b.state = "hidden" THEN Bubble_show(b, text_len)
    ELSE IF b.state = "showing" THEN Bubble_hide(b)
    ELSE b

Bubble_should_scroll(b) == b.text_len * 5 > BubbleTextMaxWidth

Bubble_update(b, dt) ==
    CASE b.state = "animating_in" ->
            IF b.frame_timer + dt >= BubbleFrameDelay
            THEN [b EXCEPT !.frame_timer = 0, !.current_frame = @ - 1,
                           !.state = IF b.current_frame - 1 < 0 THEN "showing" ELSE @]
            ELSE [b EXCEPT !.frame_timer = @ + dt]
      [] b.state = "animating_out" ->
            IF b.frame_timer + dt >= BubbleFrameDelay
            THEN [b EXCEPT !.frame_timer = 0, !.current_frame = @ + 1,
                           !.state = IF b.current_frame + 1 >= 5 THEN "hidden" ELSE @]
            ELSE [b EXCEPT !.frame_timer = @ + dt]
      [] b.state = "showing" /\ Bubble_should_scroll(b) ->
            IF b.scroll_timer + dt >= ScrollDelay
            THEN [b EXCEPT !.scroll_timer = 0,
                           !.scroll_offset = (@ + 1) % (b.text_len + 3)]
            ELSE [b EXCEPT !.scroll_timer = @ + dt]
      [] OTHER -> b

-----------------------------------------------------------------------------
(* game/screens.py *)

\* Config.ANIM_FRAME_DELAY, ms
AnimFrameDelay == 150

\* len(Config.FACE_ANIM_SPRITES)
NumFaces == 5

HomeScreen ==
    [current_frame |-> 0, frame_timer |-> 0, current_face_index |-> 0,
     speech_bubble |-> SpeechBubbleWidget]

Home_handle_input_Reversed(h, ev) ==
    IF ~ev.pressed THEN [home |-> h, ret |-> None]
    ELSE CASE ev.input_type = "BUTTON_B" ->
                [home |-> [h EXCEPT !.speech_bubble = Bubble_toggle(@, HelloLen)],
                 ret |-> None]
           [] ev.input_type = "BUTTON_C" ->
                [home |-> [h EXCEPT !.current_face_index = (@ + 1) % NumFaces],
                 ret |-> None]
           [] ev.input_type = "RIGHT" -> [home |-> h, ret |-> "stats"]
           [] ev.input_type = "LEFT" -> [home |-> h, ret |-> "menu"]
           [] OTHER -> [home |-> h, ret |-> None]

Home_handle_input(h, ev) ==
    IF ~ev.pressed THEN [home |-> h, ret |-> None]
    ELSE CASE ev.input_type = "BUTTON_B" ->
                [home |-> [h EXCEPT !.speech_bubble = Bubble_toggle(@, HelloLen)],
                 ret |-> None]
           [] ev.input_type = "BUTTON_C" ->
                [home |-> [h EXCEPT !.current_face_index = (@ + 1) % NumFaces],
                 ret |-> None]
           [] ev.input_type = "RIGHT" -> [home |-> h, ret |-> "menu"]
           [] ev.input_type = "LEFT" -> [home |-> h, ret |-> "stats"]
           [] OTHER -> [home |-> h, ret |-> None]

Home_update_AdvancesEveryCall(h, dt) ==
    LET h1 == IF h.frame_timer + dt >= 0
              THEN [h EXCEPT !.frame_timer = 0, !.current_frame = (@ + 1) % 4]
              ELSE [h EXCEPT !.frame_timer = @ + dt]
    IN  [h1 EXCEPT !.speech_bubble = Bubble_update(@, dt)]

Home_update(h, dt) ==
    LET h1 == IF h.frame_timer + dt >= AnimFrameDelay
              THEN [h EXCEPT !.frame_timer = 0, !.current_frame = (@ + 1) % 4]
              ELSE [h EXCEPT !.frame_timer = @ + dt]
    IN  [h1 EXCEPT !.speech_bubble = Bubble_update(@, dt)]

\* menu_items, by name
MenuItems == <<"Home", "Habits", "Stats", "Settings">>

\* name.lower() of a menu item
Lower(name) ==
    CASE name = "Home" -> "home"
      [] name = "Habits" -> "habits"
      [] name = "Stats" -> "stats"
      [] name = "Settings" -> "settings"
      [] OTHER -> name

MenuScreen == [selected_index |-> 0]

Menu_handle_input_HabitsByName(m, ev) ==
    IF ~ev.pressed THEN [menu |-> m, ret |-> None]
    ELSE CASE ev.input_type = "UP" ->
                [menu |-> [m EXCEPT !.selected_index =
                              (@ - 1 + Len(MenuItems)) % Len(MenuItems)],
                 ret |-> None]
           [] ev.input_type = "DOWN" ->
                [menu |-> [m EXCEPT !.selected_index = (@ + 1) % Len(MenuItems)],
                 ret |-> None]
           [] ev.input_type = "BUTTON_A" ->
                [menu |-> m, ret |-> Lower(MenuItems[m.selected_index + 1])]
           [] ev.input_type = "LEFT" -> [menu |-> m, ret |-> "home"]
           [] OTHER -> [menu |-> m, ret |-> None]

Menu_handle_input(m, ev) ==
    IF ~ev.pressed THEN [menu |-> m, ret |-> None]
    ELSE CASE ev.input_type = "UP" ->
                [menu |-> [m EXCEPT !.selected_index =
                              (@ - 1 + Len(MenuItems)) % Len(MenuItems)],
                 ret |-> None]
           [] ev.input_type = "DOWN" ->
                [menu |-> [m EXCEPT !.selected_index = (@ + 1) % Len(MenuItems)],
                 ret |-> None]
           [] ev.input_type = "BUTTON_A" ->
                LET selected_name == Lower(MenuItems[m.selected_index + 1])
                IN  [menu |-> m,
                     ret |-> IF selected_name = "habits" THEN "habit_checker"
                             ELSE selected_name]
           [] ev.input_type = "LEFT" -> [menu |-> m, ret |-> "home"]
           [] OTHER -> [menu |-> m, ret |-> None]

\* HabitsScreen: the four demo habits' completed flags and the cursor over
\* menu_items (the habits and the "+ Add Habit" item)
HabitsScreen ==
    [completed |-> <<FALSE, FALSE, TRUE, FALSE>>, selected_index |-> 0]

Habits_handle_input(h, ev) ==
    LET n == Len(h.completed) + 1
        is_add_button == h.selected_index = n - 1
    IN  IF ~ev.pressed THEN [habits |-> h, ret |-> None]
        ELSE CASE ev.input_type = "UP" ->
                    [habits |-> [h EXCEPT !.selected_index = (@ - 1 + n) % n], ret |-> None]
               [] ev.input_type = "DOWN" ->
                    [habits |-> [h EXCEPT !.selected_index = (@ + 1) % n], ret |-> None]
               [] ev.input_type = "BUTTON_A" ->
                    IF is_add_button THEN [habits |-> h, ret |-> "habit_form"]
                    ELSE [habits |-> [h EXCEPT !.completed[h.selected_index + 1] = ~@],
                          ret |-> None]
               [] ev.input_type = "BUTTON_B" ->
                    [habits |-> h, ret |-> IF is_add_button THEN None ELSE "habit_form_edit"]
               [] ev.input_type = "LEFT" -> [habits |-> h, ret |-> "menu"]
               [] ev.input_type = "RIGHT" -> [habits |-> h, ret |-> "home"]
               [] OTHER -> [habits |-> h, ret |-> None]

\* datetime.now()'s calendar day, as a day number; the run stays within it
Today == 10

RECURSIVE SumSeq(_, _)
\* sum(row[column] for row in rows)
SumSeq(rows, column) ==
    IF Len(rows) = 0 THEN 0 ELSE rows[1][column] + SumSeq(Tail(rows), column)

\* _load_stats() on a store d: the figures of the past 7 days. completion_rate is
\* total_completed / total_possible * 100, kept as the two totals (0 of 1 where
\* the code sets the rate to 0)
Stats_load_stats(st, d) ==
    LET points_data == get_points_by_day(d, Today - 6, Today)
        completion_stats == get_completion_stats(d, Today - 6, Today)
        total_completed == SumOf(completion_stats, "completed_count")
        total_possible == SumOf(completion_stats, "total_days")
    IN  [st EXCEPT !.points_data = points_data,
                   !.completion_stats = completion_stats,
                   !.total_points = SumSeq(points_data, "total_points"),
                   !.completion_rate =
                       IF completion_stats # {} /\ total_possible > 0
                       THEN [completed |-> total_completed, possible |-> total_possible]
                       ELSE [completed |-> 0, possible |-> 1]]

\* StatsScreen(db): the demo bars and the stats loaded from the store
StatsScreen(d) ==
    Stats_load_stats(
        [hunger |-> 50, happiness |-> 70, points_data |-> <<>>, completion_stats |-> {},
         total_points |-> 0, completion_rate |-> [completed |-> 0, possible |-> 1]],
        d)

Stats_handle_input(st, ev) ==
    IF ~ev.pressed THEN [stats |-> st, ret |-> None]
    ELSE CASE ev.input_type \in {"BUTTON_A", "BUTTON_B", "BUTTON_C"} ->
                [stats |-> [st EXCEPT !.hunger = (@ + 10) % 110,
                                      !.happiness = (@ + 15) % 110],
                 ret |-> None]
           [] ev.input_type = "LEFT" -> [stats |-> st, ret |-> "home"]
           [] ev.input_type = "RIGHT" -> [stats |-> st, ret |-> "menu"]
           [] OTHER -> [stats |-> st, ret |-> None]

-----------------------------------------------------------------------------
(* game/settings_screen.py *)

SettingsItems == <<"Habits", "Update", "About">>

SettingsScreen == [selected_index |-> 0]

Settings_handle_input(st, ev) ==
    IF ~ev.pressed THEN [settings |-> st, ret |-> None]
    ELSE CASE ev.input_type = "UP" ->
                [settings |-> [st EXCEPT !.selected_index = Max2(0, @ - 1)], ret |-> None]
           [] ev.input_type = "DOWN" ->
                [settings |-> [st EXCEPT !.selected_index =
                                  Min2(Len(SettingsItems) - 1, @ + 1)],
                 ret |-> None]
           [] ev.input_type = "BUTTON_A" ->
                LET selected_item == SettingsItems[st.selected_index + 1]
                IN  [settings |-> st,
                     ret |-> CASE selected_item = "Habits" -> "view_habits"
                               [] selected_item = "Update" -> "update"
                               [] selected_item = "About" -> "about"
                               [] OTHER -> None]
           [] ev.input_type = "LEFT" -> [settings |-> st, ret |-> "stats"]
           [] OTHER -> [settings |-> st, ret |-> None]

-----------------------------------------------------------------------------
(* game/popup_screen.py *)

PopupScreen(on_ok_screen, on_cancel_screen) ==
    [on_ok_screen |-> on_ok_screen, on_cancel_screen |-> on_cancel_screen,
     selected_button |-> 0]

\* handle_input does not look at event.pressed
Popup_handle_input(p, ev) ==
    CASE ev.input_type = "LEFT" -> [popup |-> [p EXCEPT !.selected_button = 0], ret |-> None]
      [] ev.input_type = "RIGHT" -> [popup |-> [p EXCEPT !.selected_button = 1], ret |-> None]
      [] ev.input_type = "BUTTON_A" ->
            [popup |-> p,
             ret |-> IF p.selected_button = 0 THEN p.on_ok_screen ELSE p.on_cancel_screen]
      [] OTHER -> [popup |-> p, ret |-> None]

-----------------------------------------------------------------------------
(* game/about_screen.py *)

\* AboutScreen.VISIBLE_LINES
VisibleLines == 10

AboutScreen(num_lines) == [num_lines |-> num_lines, scroll_offset |-> 0]

About_handle_input(a, ev) ==
    LET max_scroll == Max2(0, a.num_lines - VisibleLines)
    IN  IF ~ev.pressed THEN [about |-> a, ret |-> None]
        ELSE CASE ev.input_type = "UP" ->
                    [about |-> [a EXCEPT !.scroll_offset = Max2(0, @ - 1)], ret |-> None]
               [] ev.input_type = "DOWN" ->
                    [about |-> [a EXCEPT !.scroll_offset = Min2(max_scroll, @ + 1)],
                     ret |-> None]
               [] ev.input_type \in {"LEFT", "BUTTON_B"} -> [about |-> a, ret |-> "settings"]
               [] OTHER -> [about |-> a, ret |-> None]

-----------------------------------------------------------------------------
(* game/update_screen.py *)

\* _reset_state(); message is "checking" for the "Checking for update..." text
\* and "result" for a message of _check_for_updates
UpdateScreen ==
    [state |-> "checking", selected_button |-> 0, message |-> "checking",
     update_checked |-> FALSE, update_available |-> FALSE]

Update_handle_input(u, ev) ==
    IF ~ev.pressed \/ u.state # "show_result" THEN [update |-> u, ret |-> None]
    ELSE CASE ev.input_type = "LEFT" ->
                [update |-> [u EXCEPT !.selected_button = 0], ret |-> None]
           [] ev.input_type = "RIGHT" ->
                [update |-> [u EXCEPT !.selected_button = 1], ret |-> None]
           [] ev.input_type = "BUTTON_A" -> [update |-> UpdateScreen, ret |-> "settings"]
           [] OTHER -> [update |-> u, ret |-> None]

Update_update_NeverShows(u, available) == u

Update_update_ChecksEveryFrame(u, available) ==
    [u EXCEPT !.update_checked = TRUE, !.update_available = available,
              !.message = "result", !.state = "show_result"]

\* update(); available is what _check_for_updates answers if it is called
Update_update(u, available) ==
    IF ~u.update_checked
    THEN [u EXCEPT !.update_checked = TRUE, !.update_available = available,
                   !.message = "result", !.state = "show_result"]
    ELSE u

-----------------------------------------------------------------------------
(* game/habit_form_screen.py *)

\* TextInputWidget(max_length=16)
FormMaxLength == 16

FormFields == <<"Name", "Type", "Points", "Time", "Days">>

\* len(HABIT_TYPES)
NumHabitTypes == 2

HabitFormScreen(edit_mode) ==
    [edit_mode |-> edit_mode,
     text_input |-> TextInputWidget(FormMaxLength),
     current_field_index |-> 0,
     form_data |-> [Name |-> IF edit_mode THEN <<"G", "y", "m">> ELSE <<>>,
                    Type |-> 0,
                    Points |-> IF edit_mode THEN <<"8">> ELSE <<"5">>,
                    Time |-> IF edit_mode THEN <<"0", "9", ":", "0", "0">> ELSE <<>>,
                    Days |-> <<TRUE, TRUE, TRUE, TRUE, TRUE, FALSE, FALSE>>],
     editing_field |-> None,
     days_selected_index |-> 0]

\* the branch of handle_input taken while the text input is active
Form_handle_text(f, ev) ==
    LET r == Text_handle_input(f.text_input, ev)
        f1 == [f EXCEPT !.text_input = r.w]
    IN  IF Len(r.result) = 0 THEN f1
        ELSE [f1 EXCEPT !.form_data =
                 IF f.editing_field \in {"Name", "Points", "Time"}
                 THEN [@ EXCEPT ![f.editing_field] = r.result[1]]
                 ELSE @,
               !.editing_field = None]

\* the branch of handle_input taken while editing_field is "Days"
Form_handle_days(f, ev) ==
    CASE ev.input_type = "LEFT" -> [f EXCEPT !.days_selected_index = (@ - 1 + 7) % 7]
      [] ev.input_type = "RIGHT" -> [f EXCEPT !.days_selected_index = (@ + 1) % 7]
      [] ev.input_type = "BUTTON_A" ->
            [f EXCEPT !.form_data.Days[f.days_selected_index + 1] = ~@]
      [] ev.input_type = "BUTTON_B" -> [f EXCEPT !.editing_field = None]
      [] OTHER -> f

\* the BUTTON_A branch of the normal navigation
Form_activate_field(f) ==
    LET current_field == FormFields[f.current_field_index + 1]
    IN  IF current_field \in {"Name", "Points", "Time"}
        THEN [f EXCEPT !.editing_field = current_field,
                       !.text_input = [Text_activate(@) EXCEPT
                                          !.value = f.form_data[current_field]]]
        ELSE IF current_field = "Days"
        THEN [f EXCEPT !.editing_field = "Days", !.days_selected_index = 0]
        ELSE f

Form_handle_input(f, ev) ==
    LET stay(f1) == [form |-> f1, ret |-> None]
        n == Len(FormFields)
    IN  IF ~ev.pressed THEN stay(f)
        ELSE IF f.text_input.active THEN stay(Form_handle_text(f, ev))
        ELSE IF f.editing_field = "Days" THEN stay(Form_handle_days(f, ev))
        ELSE CASE ev.input_type = "UP" ->
                    stay([f EXCEPT !.current_field_index = (@ - 1 + n) % n])
               [] ev.input_type = "DOWN" ->
                    stay([f EXCEPT !.current_field_index = (@ + 1) % n])
               [] ev.input_type = "BUTTON_A" -> stay(Form_activate_field(f))
               [] ev.input_type \in {"LEFT", "RIGHT"} ->
                    IF FormFields[f.current_field_index + 1] = "Type"
                    THEN LET direction == IF ev.input_type = "RIGHT" THEN 1 ELSE -1
                         IN  stay([f EXCEPT !.form_data.Type =
                                      (@ + direction + NumHabitTypes) % NumHabitTypes])
                    ELSE stay(f)
               [] ev.input_type \in {"BUTTON_B", "BUTTON_C"} -> [form |-> f, ret |-> "habits"]
               [] OTHER -> stay(f)

Form_update(f, dt) == [f EXCEPT !.text_input = Text_update(@, dt)]

-----------------------------------------------------------------------------
(* game/habit_checker_screen.py *)

\* HabitCheckerScreen.MAX_NAME_LENGTH
CheckerMaxName == 8

\* the dates of the three columns: two days ago, yesterday, today
CheckerDates == <<Today - 2, Today - 1, Today>>

CheckerEntry(d, h) ==
    LET logs == get_habit_logs(d, h.id, CheckerDates[1], CheckerDates[3])
    IN  [id |-> h.id, name |-> h.name,
         checks |-> [i \in 1..3 |->
                        \E l \in logs : l.date = CheckerDates[i] /\ l.completed # 0]]

Checker_load_habits(c, d) ==
    LET db_habits == get_all_habits(d, TRUE)
    IN  [c EXCEPT !.habits = [i \in 1..Len(db_habits) |-> CheckerEntry(d, db_habits[i])]]

HabitCheckerScreen(d) ==
    Checker_load_habits(
        [habits |-> <<>>, selected_habit |-> 0, selected_day |-> 2,
         checkbox_mode |-> FALSE, scroll_offset |-> 0, scroll_timer |-> 0],
        d)

Checker_reload_habits(c, d) ==
    LET c1 == Checker_load_habits(c, d)
    IN  IF c1.selected_habit >= Len(c1.habits)
        THEN [c1 EXCEPT !.selected_habit = 0]
        ELSE c1

Checker_save_checkbox_DaysAhead(c, d, habit_idx, day_idx, checked) ==
    LET habit_id == c.habits[habit_idx + 1].id
        target_date == Today - day_idx
        db_habit == get_habit_by_id(d, habit_id)
        points == IF checked THEN db_habit[1].points_per ELSE 0
    IN  log_habit_completion(d, habit_id, target_date, checked, FALSE,
                             IF checked THEN 1 ELSE 0, points)

\* the store after _save_checkbox(habit_idx, day_idx, checked)
Checker_save_checkbox(c, d, habit_idx, day_idx, checked) ==
    LET habit_id == c.habits[habit_idx + 1].id
        target_date == Today - (2 - day_idx)
        db_habit == get_habit_by_id(d, habit_id)
        points == IF checked THEN db_habit[1].points_per ELSE 0
    IN  log_habit_completion(d, habit_id, target_date, checked, FALSE,
                             IF checked THEN 1 ELSE 0, points)

Checker_handle_input_ModesLeak(c, d, ev) ==
    LET stay(c1, d1) == [checker |-> c1, db |-> d1, ret |-> None]
        n == Len(c.habits)
    IN  IF ~ev.pressed THEN stay(c, d)
        ELSE IF n = 0
        THEN [checker |-> c, db |-> d,
              ret |-> IF ev.input_type = "LEFT" THEN "menu" ELSE None]
        ELSE IF ~c.checkbox_mode
        THEN CASE ev.input_type = "UP" ->
                    stay([c EXCEPT !.selected_habit = (@ - 1 + n) % n], d)
               [] ev.input_type = "DOWN" ->
                    stay([c EXCEPT !.selected_habit = (@ + 1) % n], d)
               [] ev.input_type = "BUTTON_A" -> stay([c EXCEPT !.checkbox_mode = TRUE], d)
               [] ev.input_type = "LEFT" -> [checker |-> c, db |-> d, ret |-> "menu"]
               [] OTHER -> stay(c, d)
        ELSE CASE ev.input_type = "LEFT" ->
                    stay([c EXCEPT !.selected_day = (@ - 1 + 3) % 3], d)
               [] ev.input_type = "RIGHT" ->
                    stay([c EXCEPT !.selected_day = (@ + 1) % 3], d)
               [] ev.input_type = "UP" ->
                    stay([c EXCEPT !.selected_habit = (@ - 1 + n) % n], d)
               [] ev.input_type = "BUTTON_A" ->
                    LET new_state == ~c.habits[c.selected_habit + 1].checks[c.selected_day + 1]
                    IN  stay([c EXCEPT !.habits[c.selected_habit + 1].checks[c.selected_day + 1]
                                          = new_state],
                             Checker_save_checkbox(c, d, c.selected_habit, c.selected_day,
                                                   new_state))
               [] ev.input_type = "BUTTON_B" -> stay([c EXCEPT !.checkbox_mode = FALSE], d)
               [] OTHER -> stay(c, d)

Checker_handle_input(c, d, ev) ==
    LET stay(c1, d1) == [checker |-> c1, db |-> d1, ret |-> None]
        n == Len(c.habits)
    IN  IF ~ev.pressed THEN stay(c, d)
        ELSE IF n = 0
        THEN [checker |-> c, db |-> d,
              ret |-> IF ev.input_type = "LEFT" THEN "menu" ELSE None]
        ELSE IF ~c.checkbox_mode
        THEN CASE ev.input_type = "UP" ->
                    stay([c EXCEPT !.selected_habit = (@ - 1 + n) % n], d)
               [] ev.input_type = "DOWN" ->
                    stay([c EXCEPT !.selected_habit = (@ + 1) % n], d)
               [] ev.input_type = "BUTTON_A" -> stay([c EXCEPT !.checkbox_mode = TRUE], d)
               [] ev.input_type = "LEFT" -> [checker |-> c, db |-> d, ret |-> "menu"]
               [] OTHER -> stay(c, d)
        ELSE CASE ev.input_type = "LEFT" ->
                    stay([c EXCEPT !.selected_day = (@ - 1 + 3) % 3], d)
               [] ev.input_type = "RIGHT" ->
                    stay([c EXCEPT !.selected_day = (@ + 1) % 3], d)
               [] ev.input_type = "BUTTON_A" ->
                    LET new_state == ~c.habits[c.selected_habit + 1].checks[c.selected_day + 1]
                    IN  stay([c EXCEPT !.habits[c.selected_habit + 1].checks[c.selected_day + 1]
                                          = new_state],
                             Checker_save_checkbox(c, d, c.selected_habit, c.selected_day,
                                                   new_state))
               [] ev.input_type = "BUTTON_B" -> stay([c EXCEPT !.checkbox_mode = FALSE], d)
               [] OTHER -> stay(c, d)

Checker_update(c, dt) ==
    IF ~c.checkbox_mode /\ c.selected_habit < Len(c.habits)
    THEN LET habit_name == c.habits[c.selected_habit + 1].name
         IN  IF Len(habit_name) > CheckerMaxName
             THEN IF c.scroll_timer + dt >= ScrollDelay
                  THEN [c EXCEPT !.scroll_timer = 0,
                                 !.scroll_offset = (@ + 1) % (Len(habit_name) + 1)]
                  ELSE [c EXCEPT !.scroll_timer = @ + dt]
             ELSE [c EXCEPT !.scroll_offset = 0, !.scroll_timer = 0]
    ELSE [c EXCEPT !.scroll_offset = 0, !.scroll_timer = 0]

-----------------------------------------------------------------------------
(* main.py: the registry *)

MainRegistry_WithoutAbout ==
    {"home", "menu", "habits", "stats", "settings", "habit_form", "habit_form_edit",
     "view_habits", "edit_habit", "habit_checker", "popup_delete", "update"}

\* the keys of the screens dict main() builds
MainRegistry ==
    {"home", "menu", "habits", "stats", "settings", "habit_form", "habit_form_edit",
     "view_habits", "edit_habit", "habit_checker", "popup_delete", "update", "about"}

\* the screens that are neither view, edit, menu nor settings, as main() builds them
OtherScreens(d, about_lines) ==
    [home |-> HomeScreen,
     habits |-> HabitsScreen,
     stats |-> StatsScreen(d),
     habit_form |-> HabitFormScreen(FALSE),
     habit_form_edit |-> HabitFormScreen(TRUE),
     habit_checker |-> HabitCheckerScreen(d),
     popup_delete |-> PopupScreen("view_habits", "view_habits"),
     update |-> UpdateScreen,
     about |-> AboutScreen(about_lines)]

\* everything a screen's methods can read or write
World ==
    [db |-> db, selected_habit_data |-> selected_habit_data, view |-> view,
     edit |-> edit, menu |-> menu, settings |-> settings, others |-> others]

\* the world once a handle_input of the view, edit or checker screen has returned
\* r: the instance, the store and the class variable as the call left them
PutView(w, r) ==
    [w |-> [w EXCEPT !.view = r.view, !.db = r.db, !.selected_habit_data = r.handoff],
     ret |-> r.ret, wrote |-> r.wrote]

PutEdit(w, r) ==
    [w |-> [w EXCEPT !.edit = r.edit, !.db = r.db], ret |-> r.ret, wrote |-> FALSE]

PutChecker(w, r) ==
    [w |-> [w EXCEPT !.others.habit_checker = r.checker, !.db = r.db],
     ret |-> r.ret, wrote |-> FALSE]

\* the same for a screen that holds no store: the instance is r[key]
PutOwn(w, name, r) ==
    [w |-> [w EXCEPT ![name] = r[name]], ret |-> r.ret, wrote |-> FALSE]

PutOther(w, name, key, r) ==
    [w |-> [w EXCEPT !.others[name] = r[key]], ret |-> r.ret, wrote |-> FALSE]

\* the world after the screen registered as name handled ev, the name returned, and
\* whether the handler assigned ViewHabitsScreen.selected_habit_data
Screen_handle_input(name, w, ev) ==
    CASE name = "view_habits" ->
            PutView(w, View_handle_input(w.view, w.db, w.selected_habit_data, ev))
      [] name = "edit_habit" -> PutEdit(w, Edit_handle_input(w.edit, w.db, ev))
      [] name = "menu" -> PutOwn(w, "menu", Menu_handle_input(w.menu, ev))
      [] name = "settings" -> PutOwn(w, "settings", Settings_handle_input(w.settings, ev))
      [] name = "home" -> PutOther(w, "home", "home", Home_handle_input(w.others.home, ev))
      [] name = "habits" ->
            PutOther(w, "habits", "habits", Habits_handle_input(w.others.habits, ev))
      [] name = "stats" -> PutOther(w, "stats", "stats", Stats_handle_input(w.others.stats, ev))
      [] name \in {"habit_form", "habit_form_edit"} ->
            PutOther(w, name, "form", Form_handle_input(w.others[name], ev))
      [] name = "habit_checker" ->
            PutChecker(w, Checker_handle_input(w.others.habit_checker, w.db, ev))
      [] name = "popup_delete" ->
            PutOther(w, "popup_delete", "popup",
                     Popup_handle_input(w.others.popup_delete, ev))
      [] name = "update" ->
            PutOther(w, "update", "update", Update_handle_input(w.others.update, ev))
      [] name = "about" -> PutOther(w, "about", "about", About_handle_input(w.others.about, ev))

\* the world after the screen registered as name ran update(dt); available is
\* the answer of the update check, should the update screen make it
Screen_update(name, w, dt, available) ==
    CASE name = "view_habits" -> [w EXCEPT !.view = View_update(@, dt)]
      [] name = "edit_habit" -> [w EXCEPT !.edit = Edit_update(@, dt)]
      [] name = "home" -> [w EXCEPT !.others.home = Home_update(@, dt)]
      [] name = "habit_form" -> [w EXCEPT !.others.habit_form = Form_update(@, dt)]
      [] name = "habit_form_edit" -> [w EXCEPT !.others.habit_form_edit = Form_update(@, dt)]
      [] name = "habit_checker" -> [w EXCEPT !.others.habit_checker = Checker_update(@, dt)]
      [] name = "update" -> [w EXCEPT !.others.update = Update_update(@, available)]
      [] OTHER -> w

-----------------------------------------------------------------------------
(* game/app.py *)

\* one call App makes: what is called, on which screen instance (None for the input
\* source and the display), and what current_screen_name was at the time
Call(what, on, current) == [call |-> what, on |-> on, current |-> current]

\* the reload hook App._handle_input runs for a transition target: the world after it
App_reload(target, w) ==
    CASE target = "edit_habit" ->
            [w EXCEPT !.edit = Edit_load_habit_data(@, w.selected_habit_data)]
      [] target = "view_habits" -> [w EXCEPT !.view = View_reload_habits(@, w.db)]
      [] target = "habit_checker" ->
            [w EXCEPT !.others.habit_checker = Checker_reload_habits(@, w.db)]
      [] OTHER -> w

HasReload(target) == target \in {"edit_habit", "view_habits", "habit_checker"}

Accepts_AnyName(registry, name) == Truthy(name)

\* whether App._handle_input takes the transition a screen asked for
Accepts(registry, name) == Truthy(name) /\ name \in registry

Swap_KeepInstance(target, screen) ==
    [current_screen_name |-> target, current_screen |-> screen]

\* the two assignments that make target the active screen; screen is the instance
\* that was active
App_swap(target, screen) ==
    [current_screen_name |-> target, current_screen |-> target]

TransitionCalls_SwapFirst(target, current) ==
    <<Call("swap", target, target)>>
    \o (IF HasReload(target) THEN <<Call("reload", target, target)>> ELSE <<>>)

\* the calls of the transition branch of App._handle_input, in order
TransitionCalls(target, current) ==
    (IF HasReload(target) THEN <<Call("reload", target, current)>> ELSE <<>>)
    \o <<Call("swap", target, target)>>

\* the transition branch of App._handle_input, r being what the active screen's
\* handle_input left and returned: the world, current_screen_name and
\* current_screen, running, the name returned, the calls made (an assignment of
\* selected_habit_data inside handle_input is listed as "write_handoff") and the
\* arguments of the load_habit_data calls made
App_transition(registry, current, screen, r) ==
    LET handled == <<Call("poll_event", None, current), Call("handle_input", screen, current)>>
                   \o (IF r.wrote THEN <<Call("write_handoff", screen, current)>> ELSE <<>>)
        s == App_swap(r.ret, screen)
    IN  IF Accepts(registry, r.ret)
        THEN [w |-> App_reload(r.ret, r.w),
              current |-> s.current_screen_name, screen |-> s.current_screen,
              running |-> TRUE, ret |-> r.ret,
              calls |-> handled \o TransitionCalls(r.ret, current),
              loaded |-> IF r.ret = "edit_habit" THEN <<r.w.selected_habit_data>>
                         ELSE <<>>]
        ELSE [w |-> r.w, current |-> current, screen |-> screen, running |-> TRUE,
              ret |-> r.ret, calls |-> handled, loaded |-> <<>>]

\* App._handle_input on a polled event ev that is neither None nor QUIT
App_dispatch(registry, current, screen, w, ev) ==
    App_transition(registry, current, screen, Screen_handle_input(screen, w, ev))

\* delta_time values of an iteration, ms: an immediate iteration, and one that
\* took as long as the longest timer period of a screen (the cursor blink)
DeltaTimes == {0, BlinkDelay}

\* what input_handler.poll() can return
PollEvents ==
    {NoEvent, InputEvent("QUIT", TRUE)}
    \cup {InputEvent(t, p) : t \in ScreenInputTypes, p \in BOOLEAN}

IsPress(ev) == ev.pressed /\ ev.input_type # "QUIT"

SetWorld(w) ==
    /\ db' = w.db
    /\ selected_habit_data' = w.selected_habit_data
    /\ view' = w.view
    /\ edit' = w.edit
    /\ menu' = w.menu
    /\ settings' = w.settings
    /\ others' = w.others

\* App.run up to the loop
Run ==
    /\ pc = "constructed"
    /\ running' = TRUE
    /\ pc' = "loop"
    /\ UNCHANGED <<screens, initial_screen, current_screen_name, current_screen,
                   next_screen, frame, presses, db, selected_habit_data, load_history,
                   edit_loaded, view, edit, menu, settings, others>>
    /\ UNCHANGED <<keyboardVars, polled, gpioVars, clockVars, widget>>

App_handle_input_QuitForwarded(registry, current, screen, w, ev) ==
    IF ev = NoEvent
    THEN [w |-> w, current |-> current, screen |-> screen, running |-> TRUE,
          ret |-> None, calls |-> <<Call("poll_none", None, current)>>, loaded |-> <<>>]
    ELSE IF ev.input_type = "QUIT"
    THEN [App_dispatch(registry, current, screen, w, ev) EXCEPT
             !.running = FALSE,
             !.calls = <<Call("poll_quit", None, current)>> \o Tail(@)]
    ELSE App_dispatch(registry, current, screen, w, ev)

\* App._handle_input when poll() returned ev: the world, current_screen_name and
\* current_screen, running, the calls made (the poll is listed by what it returned),
\* the name the screen returned and the arguments of the load_habit_data calls made
App_handle_input(registry, current, screen, w, ev) ==
    IF ev = NoEvent
    THEN [w |-> w, current |-> current, screen |-> screen, running |-> TRUE,
          ret |-> None, calls |-> <<Call("poll_none", None, current)>>, loaded |-> <<>>]
    ELSE IF ev.input_type = "QUIT"
    THEN [w |-> w, current |-> current, screen |-> screen, running |-> FALSE,
          ret |-> None, calls |-> <<Call("poll_quit", None, current)>>, loaded |-> <<>>]
    ELSE App_dispatch(registry, current, screen, w, ev)

App_update_SkipsIdleFrame(current, screen, w, delta_time, available) ==
    IF delta_time = 0 THEN [w |-> w, calls |-> <<>>]
    ELSE [w |-> Screen_update(screen, w, delta_time, available),
          calls |-> <<Call("update", screen, current)>>]

\* App._update: the world after it and the call it makes; available is the answer
\* of the update check, should the screen's update make it
App_update(current, screen, w, delta_time, available) ==
    [w |-> Screen_update(screen, w, delta_time, available),
     calls |-> <<Call("update", screen, current)>>]

\* the iteration of App.run up to _render, for an event ev polled and a delta_time
\* measured: _handle_input, then _update on the screen active after it
App_step(registry, h, ev, delta_time) ==
    LET Updated(i) ==
            [w |-> App_update(i.current, i.screen, i.w, delta_time, FALSE).w,
             current |-> i.current, screen |-> i.screen, running |-> i.running]
    IN  Updated(App_handle_input(registry, h.current, h.screen, h.w, ev))

RECURSIVE App_steps(_, _, _, _)
\* consecutive iterations that polled the events evs, in order, from the world,
\* current_screen_name and current_screen of h; an iteration that leaves running
\* false is the last
App_steps(registry, h, evs, delta_time) ==
    IF Len(evs) = 0 THEN h
    ELSE LET stepped == App_step(registry, h, evs[1], delta_time)
         IN  IF stepped.running
             THEN App_steps(registry, stepped, Tail(evs), delta_time)
             ELSE stepped

\* the calls of App._render, in order
App_render(current, screen) ==
    <<Call("get_buffer", None, current),
      Call("render", screen, current),
      Call("display_update", None, current)>>

\* the answers _check_for_updates can give in the update of the screen registered as
\* name; FALSE alone where update makes no check
CheckAnswers(name, w) ==
    IF name = "update" /\ ~w.others.update.update_checked THEN BOOLEAN ELSE {FALSE}

\* the end of an iteration whose _handle_input had the outcome h and whose _update
\* had the outcome u: _render, and the display closed once the loop is left
Iteration_render(h, u) ==
    /\ SetWorld(u.w)
    /\ frame' = h.calls \o u.calls \o App_render(h.current, h.screen)
                \o (IF h.running THEN <<>> ELSE <<Call("display_close", None, h.current)>>)

\* an iteration from the return of _handle_input, with the outcome h, on
Iteration_update(h) ==
    /\ running' = h.running
    /\ next_screen' = h.ret
    /\ current_screen_name' = h.current
    /\ current_screen' = h.screen
    /\ load_history' =
          IF Len(h.loaded) = 0 THEN load_history
          ELSE IF Len(load_history) = 0 THEN h.loaded
          ELSE <<load_history[Len(load_history)]>> \o h.loaded
    /\ edit_loaded' = IF Len(h.loaded) = 0 THEN edit_loaded ELSE h.w.edit
    /\ \E delta_time \in DeltaTimes, available \in CheckAnswers(h.screen, h.w) :
          Iteration_render(h, App_update(h.current, h.screen, h.w, delta_time, available))
    /\ pc' = IF h.running THEN "loop" ELSE "stopped"

\* one iteration of the loop of App.run: _handle_input, _update with the delta_time
\* the iteration measured, _render, the sleep, and the loop test, which leaves the
\* loop and closes the display once running is false
Iteration ==
    /\ pc = "loop"
    /\ \E ev \in PollEvents :
        /\ IsPress(ev) => presses > 0
        /\ presses' = IF IsPress(ev) THEN presses - 1 ELSE presses
        /\ Iteration_update(
              App_handle_input(screens, current_screen_name, current_screen, World, ev))
    /\ UNCHANGED <<screens, initial_screen>>
    /\ UNCHANGED <<keyboardVars, polled, gpioVars, clockVars, widget>>

Next == Run \/ Iteration

\* what App holds
appVars ==
    <<screens, initial_screen, current_screen_name, current_screen, running, pc,
      next_screen, frame, db, selected_habit_data, load_history, edit_loaded, view, edit,
      menu, settings, others>>

\* the raw events the window system posts in the runs: the window's close button,
\* the D and A keys, a key that is not mapped, and a mouse move
RawEvents ==
    {RawEvent("QUIT", None), RawEvent("KEYDOWN", "K_d"), RawEvent("KEYUP", "K_d"),
     RawEvent("KEYDOWN", "K_a"), RawEvent("KEYDOWN", "K_x"), RawEvent("MOUSEMOTION", None)}

\* the window system posts a raw event to pygame's queue
PostEvent ==
    /\ pc # "stopped"
    /\ presses > 0
    /\ presses' = presses - 1
    /\ \E e \in RawEvents :
          /\ event_queue' = Append(event_queue, e)
          /\ raised' = raised \o Keyboard_translate(e)
    /\ UNCHANGED <<appVars, polled, gpioVars, clockVars, widget>>

\* an iteration whose poll, of KeyboardInput, had the outcome r
Keyboard_iteration(r) ==
    /\ event_queue' = r.queue
    /\ polled' = IF r.event = NoEvent THEN polled ELSE Append(polled, r.event)
    /\ Iteration_update(
          App_handle_input(screens, current_screen_name, current_screen, World, r.event))

\* one iteration of the loop of App.run with a KeyboardInput as input_handler
KeyboardIteration ==
    /\ pc = "loop"
    /\ Keyboard_iteration(Keyboard_poll(event_queue))
    /\ UNCHANGED <<screens, initial_screen, presses, raised, gpioVars, clockVars, widget>>

NextKeyboard == Run \/ PostEvent \/ KeyboardIteration

\* a GPIO pin changes its level: a button or the joystick is pressed or released
GPIOLevelChange ==
    /\ presses > 0
    /\ presses' = presses - 1
    /\ \E pin \in Pins :
          /\ pins' = [pins EXCEPT ![pin] = IF @ = LOW THEN HIGH ELSE LOW]
          /\ changed' = {q \in Pins : pins'[q] # prev_state[q]}
    /\ polled' = <<>>
    /\ UNCHANGED <<appVars, keyboardVars, prev_state, clockVars, widget>>

\* a poll of GPIOInput with the outcome r
GPIO_polled(r) ==
    /\ prev_state' = r.prev_state
    /\ polled' = Append(polled, [pin |-> r.pin, event |-> r.event])

\* GPIOInput.poll is called; the polls since the last level change are counted up
\* to one more than the pins that can differ
GPIOPoll ==
    /\ Len(polled) <= GpioToggles
    /\ GPIO_polled(GPIO_poll(prev_state, pins))
    /\ UNCHANGED <<appVars, presses, keyboardVars, pins, changed, clockVars, widget>>

NextGPIO == GPIOLevelChange \/ GPIOPoll

\* Config.TARGET_FPS
TARGET_FPS == 20

\* self._frame_time = 1.0 / target_fps, ms
FrameTime(target_fps) == 1000 \div target_fps

App_pace_CatchesUp(frame_time, delta_time, elapsed) ==
    LET overrun == IF delta_time > frame_time THEN delta_time - frame_time ELSE 0
        sleep_time == frame_time - elapsed - overrun
    IN  [delta_time |-> delta_time, work |-> elapsed, sleep_time |-> sleep_time,
         slept |-> IF sleep_time > 0 THEN sleep_time ELSE 0]

\* the frame rate limiting of an iteration of App.run whose work took elapsed:
\* sleep_time, and the time slept
App_pace(frame_time, delta_time, elapsed) ==
    LET sleep_time == frame_time - elapsed
    IN  [delta_time |-> delta_time, work |-> elapsed, sleep_time |-> sleep_time,
         slept |-> IF sleep_time > 0 THEN sleep_time ELSE 0]

\* the times the work of an iteration takes, ms
WorkTimes == {0, 20, 49, 50, 51, 120}

\* the clock over an iteration timed as r
Paced(r) ==
    /\ paces' = Append(paces, r)
    /\ last_time' = clock
    /\ clock' = clock + r.work + r.slept

\* the timing of one iteration of the loop of App.run: current_time, delta_time,
\* the work, elapsed, the sleep, last_time
Pace ==
    /\ pc = "loop"
    /\ Len(paces) < MaxFrames
    /\ \E work \in WorkTimes : Paced(App_pace(FrameTime(TARGET_FPS), clock - last_time, work))
    /\ UNCHANGED <<appVars, presses, keyboardVars, polled, gpioVars, widget>>

NextTiming == Run \/ Pace

\* TextInputWidget(max_length=3) of test_max_length_limit
WidgetMaxLength == 3

\* the events handed to the widget on its own: every press, and a release
WidgetInputs == {InputEvent(t, TRUE) : t \in ScreenInputTypes} \cup {InputEvent("BUTTON_A", FALSE)}

\* widget.activate()
WidgetActivate ==
    /\ ~widget.active
    /\ Len(polled) < WidgetEvents
    /\ widget' = Text_activate(widget)
    /\ UNCHANGED <<appVars, presses, keyboardVars, polled, gpioVars, clockVars>>

\* widget.handle_input(ev); polled lists the events handed over
WidgetHandleInput ==
    /\ Len(polled) < WidgetEvents
    /\ \E ev \in WidgetInputs :
          /\ widget' = Text_handle_input(widget, ev).w
          /\ polled' = Append(polled, ev)
    /\ UNCHANGED <<appVars, presses, keyboardVars, gpioVars, clockVars>>

NextWidget == WidgetActivate \/ WidgetHandleInput

-----------------------------------------------------------------------------
(* The stores and registries the runs start from *)

Chars(n, c) == [i \in 1..n |-> c]

\* rows a habit_tracker.db can hold when the program starts
RowGym ==
    HabitRow(1, <<"G", "Y", "M">>, "binary", 5, "good", None, 60,
             <<"4", "/", "w", "e", "e", "k">>, 1)

RowLong ==
    HabitRow(2, Chars(9, "x"), "incremental", 20, "bad", None, 60,
             <<"8", "/", "d", "a", "y">>, 0)

RowDaily ==
    HabitRow(4, <<"W", "a", "l", "k">>, "binary", 1, "good", None, 60,
             <<"d", "a", "i", "l", "y">>, 1)

LogOf(habit_id, date, completed, points) ==
    [habit_id |-> habit_id, date |-> date, completed |-> completed, skipped |-> 0,
     quantity |-> completed, points_earned |-> points]

EmptyDb == [habits |-> <<>>, logs |-> {}, next_id |-> 1]

ThreeDb ==
    [habits |-> <<RowGym, RowLong, RowDaily>>,
     logs |-> {LogOf(1, Today, 1, 5), LogOf(2, Today - 1, 0, 0)},
     next_id |-> 5]

InitialDbs == {EmptyDb, ThreeDb}

\* registries of the runs of Spec: the habit list, its editor, and the two menus
\* that lead to it, whose items also name screens that are not registered here
SmallRegistries ==
    {{"menu", "settings", "view_habits", "edit_habit"}}

\* the state App.__init__ leaves, for a registry, an initial screen, a store, a
\* README of about_lines wrapped lines and a number of press events to come
Constructed(registry, initial, d, about_lines, budget) ==
    /\ screens = registry
    /\ initial_screen = initial
    /\ current_screen_name = initial
    /\ current_screen = initial
    /\ running = FALSE
    /\ pc = "constructed"
    /\ next_screen = None
    /\ frame = <<>>
    /\ presses = budget
    /\ db = d
    /\ selected_habit_data = <<>>
    /\ load_history = <<>>
    /\ edit_loaded = EditHabitScreen(<<>>)
    /\ view = ViewHabitsScreen(d)
    /\ edit = EditHabitScreen(<<>>)
    /\ menu = MenuScreen
    /\ settings = SettingsScreen
    /\ others = OtherScreens(d, about_lines)

\* the input source and the clock before the loop: no raw event posted, no poll
\* made, prev_state as GPIOInput.__init__ read it with the pins in held low, and
\* last_time as run() set it
Idle(held) ==
    /\ event_queue = <<>>
    /\ raised = <<>>
    /\ polled = <<>>
    /\ pins = [pin \in Pins |-> IF pin \in held THEN LOW ELSE HIGH]
    /\ prev_state = pins
    /\ changed = {}
    /\ clock = 0
    /\ last_time = 0
    /\ paces = <<>>
    /\ widget = TextInputWidget(WidgetMaxLength)

Init ==
    /\ \E registry \in SmallRegistries, d \in InitialDbs :
          Constructed(registry, "view_habits", d, AboutLines, MaxPresses)
    /\ Idle({})

Spec == Init /\ [][Next]_vars

\* App over the registry of main(); initial_screen is any registered name (main()
\* passes "home"), so that the screens no navigation from home reaches run as well
InitMain ==
    /\ \E d \in InitialDbs, initial \in MainRegistry :
          Constructed(MainRegistry, initial, d, AboutLines, MainPresses)
    /\ Idle({})

SpecMain == InitMain /\ [][Next]_vars

\* App as main() builds and starts it: on home
InitHome ==
    /\ \E d \in InitialDbs : Constructed(MainRegistry, "home", d, AboutLines, HomePresses)
    /\ Idle({})

SpecHome == InitHome /\ [][Next]_vars

\* App over the habit checker and the screens on the way from it to the stats,
\* started on the habit checker
InitChecker ==
    /\ Constructed({"habit_checker", "menu", "home", "stats"}, "habit_checker", ThreeDb,
                   AboutLines, CheckerPresses)
    /\ Idle({})

SpecChecker == InitChecker /\ [][Next]_vars

\* App over home, menu and stats with a KeyboardInput as input_handler
InitKeyboard ==
    /\ Constructed({"home", "menu", "stats"}, "home", EmptyDb, AboutLines, KeyEvents)
    /\ Idle({})

SpecKeyboard == InitKeyboard /\ [][NextKeyboard]_vars

\* a GPIOInput constructed with no pin low, or with KEY1 (pin 21) held
InitGPIO ==
    /\ Constructed(MainRegistry, "home", EmptyDb, AboutLines, GpioToggles)
    /\ \E held \in {{}, {21}} : Idle(held)

SpecGPIO == InitGPIO /\ [][NextGPIO]_vars

\* the loop of App.run, timed
InitTiming ==
    /\ Constructed(MainRegistry, "home", EmptyDb, AboutLines, 0)
    /\ Idle({})

SpecTiming == InitTiming /\ [][NextTiming]_vars

\* App over the stats screen alone: the names it returns are not registered
InitStats ==
    /\ Constructed({"stats"}, "stats", ThreeDb, AboutLines, StatsPresses)
    /\ Idle({})

SpecStats == InitStats /\ [][Next]_vars

\* a TextInputWidget on its own
InitWidget ==
    /\ Constructed(MainRegistry, "home", EmptyDb, AboutLines, 0)
    /\ Idle({})

SpecWidget == InitWidget /\ [][NextWidget]_vars

-----------------------------------------------------------------------------
(* Properties of the frame loop *)

\* the positions in the latest iteration's calls of the calls named what
CallsNamed(what) == {i \in 1..Len(frame) : frame[i].call = what}

\* the names of the latest iteration's calls, in order
CallNames == [i \in 1..Len(frame) |-> frame[i].call]

\* the events a screen's handle_input can be given
ScreenEvents == {InputEvent(t, p) : t \in ScreenInputTypes, p \in BOOLEAN}

\* C1: when handle_input returned a name that is no key of the registry, the
\* iteration made no reload and no swap, current_screen_name and current_screen
\* are what they were when the event was polled, and the loop is still running
C1_UnregisteredNameIsNoOp ==
    (Truthy(next_screen) /\ next_screen \notin screens) =>
        /\ CallsNamed("reload") = {}
        /\ CallsNamed("swap") = {}
        /\ \A i \in 1..Len(frame) : frame[i].current = current_screen_name
        /\ \A i \in CallsNamed("handle_input") : frame[i].on = current_screen
        /\ running
        /\ pc = "loop"

C1_Witness ==
    /\ Truthy(next_screen)
    /\ next_screen \notin screens
    /\ CallsNamed("handle_input") # {}
    /\ CallsNamed("display_update") # {}

\* C2: current_screen_name is always a key of the registry and current_screen is
\* the instance registered under it; every call made on a screen is made on that
\* instance; before run() the name is the configured initial screen and running
\* is false
C2_OneRegisteredScreenActive ==
    /\ current_screen_name \in screens
    /\ current_screen = current_screen_name
    /\ \A i \in CallsNamed("handle_input") \cup CallsNamed("update") \cup CallsNamed("render") :
          frame[i].on = frame[i].current /\ frame[i].on \in screens
    /\ pc = "constructed" => (current_screen_name = initial_screen /\ ~running)

C2_Witness ==
    /\ CallsNamed("swap") # {}
    /\ current_screen_name # initial_screen
    /\ current_screen_name # frame[1].current

\* C3: under the registry of main(), whatever a screen's handle_input returned is
\* None or a key of the registry, and so is what the active screen would return
\* for any event in the mode it is in
C3_ReturnsAreRegistered ==
    /\ screens = MainRegistry
    /\ next_screen \in {None} \cup screens
    /\ \A ev \in ScreenEvents :
          Screen_handle_input(current_screen, World, ev).ret \in {None} \cup screens

C3_Witness ==
    /\ screens = MainRegistry
    /\ Truthy(next_screen)
    /\ next_screen = current_screen_name
    /\ current_screen_name = "about"

\* C4: an iteration that polled QUIT called no screen's handle_input, made the
\* update, render and display update of the iteration, closed the display, and
\* left the loop: running is false and no further iteration can start
C4_QuitEndsAfterTheFrame ==
    CallsNamed("poll_quit") # {} =>
        /\ CallNames = <<"poll_quit", "update", "get_buffer", "render", "display_update",
                         "display_close">>
        /\ ~running
        /\ pc = "stopped"
        /\ ~ENABLED Next

C4_Witness ==
    /\ CallsNamed("poll_quit") # {}
    /\ CallsNamed("display_update") # {}
    /\ pc = "stopped"
    /\ presses < MaxPresses

\* C5: every iteration starts with one poll, calls update exactly once on the
\* screen that is active after input handling, after every call of input handling
\* and before render, and its one render is directly followed by its one display
\* update
C5_OneUpdatePerIteration ==
    frame # <<>> =>
        /\ frame[1].call \in {"poll_none", "poll_event", "poll_quit"}
        /\ Cardinality(CallsNamed("update")) = 1
        /\ Cardinality(CallsNamed("render")) = 1
        /\ Cardinality(CallsNamed("display_update")) = 1
        /\ \A u \in CallsNamed("update") :
              /\ frame[u].on = current_screen
              /\ \A i \in 1..Len(frame) :
                    frame[i].call \in {"poll_none", "poll_event", "poll_quit", "handle_input",
                                       "write_handoff", "reload", "swap"} => i < u
              /\ \A r \in CallsNamed("render") : u < r
        /\ \A r \in CallsNamed("render") :
              r < Len(frame) /\ frame[r + 1].call = "display_update"

C5_Witness ==
    /\ frame # <<>>
    /\ frame[1].call = "poll_none"
    /\ CallsNamed("update") # {}
    /\ current_screen = "home"
    /\ others.home.speech_bubble.state # "hidden"

\* C6: in an iteration that swapped the active screen, the reload hook of a target
\* edit_habit, view_habits or habit_checker was called before the swap, while the
\* source was still the active screen, and the update and the render of the
\* iteration went to the target
C6_ReloadBeforeSwap ==
    \A s \in CallsNamed("swap") :
        LET target == frame[s].on
        IN  /\ target \in {"edit_habit", "view_habits", "habit_checker"} =>
                \E r \in CallsNamed("reload") :
                    /\ r < s
                    /\ frame[r].on = target
                    /\ frame[r].current = frame[1].current
            /\ \A i \in CallsNamed("update") \cup CallsNamed("render") :
                  i > s /\ frame[i].on = target
            /\ CallsNamed("update") # {}
            /\ CallsNamed("render") # {}
            /\ current_screen = target

C6_Witness ==
    \E s \in CallsNamed("swap") :
        /\ frame[s].on = "habit_checker"
        /\ frame[1].current = "menu"
        /\ CallsNamed("reload") # {}

-----------------------------------------------------------------------------
(* Properties of the habit list and its editor *)

\* what C7 compares of an EditHabitScreen: form fields, habit id, cursor, editing
\* flags, scroll state and text buffer
EditFormState(e) ==
    [name |-> e.name, freq_number |-> e.freq_number, freq_period |-> e.freq_period,
     points |-> e.points, is_good |-> e.is_good, active |-> e.active,
     reminder |-> e.reminder, habit_id |-> e.habit_id,
     selected_field |-> e.selected_field, selected_button |-> e.selected_button,
     editing_name |-> e.editing_name, editing_freq |-> e.editing_freq,
     freq_edit_stage |-> e.freq_edit_stage, editing_points |-> e.editing_points,
     scroll_offset |-> e.scroll_offset, scroll_timer |-> e.scroll_timer,
     text |-> e.text_input.value]

\* C7: once load_habit_data has been called twice, with V1 and then V2, what the
\* second call left of form fields, habit id, cursor, editing flags, scroll state
\* and text buffer is what loading V2 into a newly constructed screen leaves
C7_SecondLoadLeavesNoResidue ==
    Len(load_history) = 2 =>
        EditFormState(edit_loaded)
            = EditFormState(Edit_load_habit_data(EditHabitScreen(<<>>), load_history[2]))

C7_Witness ==
    /\ Len(load_history) = 2
    /\ load_history[1] # load_history[2]
    /\ CallsNamed("reload") # {}
    /\ current_screen = "edit_habit"

\* the row of the store the list's selection stands for
SelectedRow == get_habit_by_id(db, view.habits[view.selected_index + 1].id)[1]

\* C8: in the iteration that went from the list to the editor with a habit selected,
\* load_habit_data left name, frequency, points, type and active equal to the
\* attributes of the habit's row in the store
C8_EditorShowsStoredRecord ==
    (/\ CallsNamed("reload") # {}
     /\ current_screen = "edit_habit"
     /\ view.selected_index >= 0) =>
        /\ edit_loaded.habit_id = SelectedRow.id
        /\ edit_loaded.name = SelectedRow.name
        /\ \/ FormatRecurrence(edit_loaded.freq_number, edit_loaded.freq_period)
                = SelectedRow.recurrence
           \/ /\ SelectedRow.recurrence = <<"d", "a", "i", "l", "y">>
              /\ edit_loaded.freq_number = 1
              /\ edit_loaded.freq_period = DayStr
        /\ edit_loaded.points = SelectedRow.points_per
        /\ edit_loaded.is_good = (SelectedRow.category = "good")
        /\ edit_loaded.active = (SelectedRow.active = 1)

\* C8 without the type: the fields the handoff carries
C8_EditorShowsStoredRecordButType ==
    (/\ CallsNamed("reload") # {}
     /\ current_screen = "edit_habit"
     /\ view.selected_index >= 0) =>
        /\ edit_loaded.habit_id = SelectedRow.id
        /\ edit_loaded.name = SelectedRow.name
        /\ \/ FormatRecurrence(edit_loaded.freq_number, edit_loaded.freq_period)
                = SelectedRow.recurrence
           \/ /\ SelectedRow.recurrence = <<"d", "a", "i", "l", "y">>
              /\ edit_loaded.freq_number = 1
              /\ edit_loaded.freq_period = DayStr
        /\ edit_loaded.points = SelectedRow.points_per
        /\ edit_loaded.active = (SelectedRow.active = 1)

C8_Witness ==
    /\ CallsNamed("reload") # {}
    /\ current_screen = "edit_habit"
    /\ view.selected_index >= 0
    /\ SelectedRow.category = "bad"
    /\ edit_loaded.is_good

\* C9: wherever the editor is active with its cancel button selected, whatever
\* the form holds, handle_input of a BUTTON_A press returns view_habits and leaves
\* the store as it is
C9_CancelWritesNothing ==
    (/\ current_screen = "edit_habit"
     /\ ~edit.editing_name
     /\ edit.selected_button = "cancel") =>
        LET r == Screen_handle_input("edit_habit", World, InputEvent("BUTTON_A", TRUE))
        IN  /\ r.ret = "view_habits"
            /\ r.w.db = db

C9_Witness ==
    /\ current_screen = "view_habits"
    /\ next_screen = "view_habits"
    /\ \E i \in CallsNamed("handle_input") : frame[i].on = "edit_habit"
    /\ edit.selected_button = "cancel"
    /\ edit.habit_id # NoId
    /\ edit.reminder

\* C10: an iteration that swapped to edit_habit wrote selected_habit_data inside
\* the handle_input call, before the reload; the value is the one of the list's
\* selection (None for NEW HABIT), and it is what load_habit_data received
C10_HandoffWrittenBeforeEveryEdit ==
    \A s \in CallsNamed("swap") :
        frame[s].on = "edit_habit" =>
            /\ \E h \in CallsNamed("handle_input"), w \in CallsNamed("write_handoff"),
                  r \in CallsNamed("reload") : h < w /\ w < r /\ r < s
            /\ Len(load_history) > 0
            /\ load_history[Len(load_history)] = selected_habit_data
            /\ selected_habit_data =
                  IF view.selected_index = -1 THEN <<>>
                  ELSE <<view.habits[view.selected_index + 1]>>

C10_Witness ==
    /\ \E s \in CallsNamed("swap") : frame[s].on = "edit_habit"
    /\ Len(load_history) = 2
    /\ load_history[1] # <<>>
    /\ load_history[2] = <<>>
    /\ selected_habit_data = <<>>

\* the loop as it stands: the world, current_screen_name and current_screen
Standing ==
    [w |-> World, current |-> current_screen_name, screen |-> current_screen,
     running |-> running]

Press(t) == InputEvent(t, TRUE)

\* the presses that type the name "A" into the editor's name field, move to the
\* save button by UP and DOWN, and press it
TypeNameAndSave ==
    <<Press("BUTTON_A"), Press("BUTTON_A"), Press("BUTTON_C"), Press("UP"), Press("DOWN"),
      Press("BUTTON_A")>>

\* the store d1 is the store d with one row added, of a new id and the name "A"
AddsOneRecord(d, d1) ==
    /\ Len(d1.habits) = Len(d.habits) + 1
    /\ SubSeq(d1.habits, 1, Len(d.habits)) = d.habits
    /\ d1.habits[Len(d1.habits)].name = <<"A">>
    /\ \A i \in 1..Len(d.habits) : d.habits[i].id # d1.habits[Len(d1.habits)].id
    /\ d1.logs = d.logs

C11_SavedFrom(h) ==
    /\ h.current = "view_habits"
    /\ AddsOneRecord(db, h.w.db)

-----------------------------------------------------------------------------
(* Properties of navigation and of the list cursors *)

\* the active screen after iterations that polled the events evs
ActiveAfter(evs) == App_steps(screens, Standing, evs, 0).current

\* C12: wherever home is the active screen, an iteration that polls a RIGHT press
\* makes menu the active screen and a following one that polls a LEFT press makes
\* home active again; an iteration that polls a LEFT press on home makes stats
\* active
C12_HomeMenuHomeStats ==
    current_screen = "home" =>
        /\ ActiveAfter(<<Press("RIGHT")>>) = "menu"
        /\ ActiveAfter(<<Press("RIGHT"), Press("LEFT")>>) = "home"
        /\ ActiveAfter(<<Press("LEFT")>>) = "stats"
        /\ App_steps(screens, Standing, <<Press("RIGHT"), Press("LEFT")>>, 0).screen = "home"

C12_Witness ==
    /\ initial_screen = "home"
    /\ current_screen = "home"
    /\ presses = MainPresses - 2
    /\ \E s \in CallsNamed("swap") : frame[s].on = "home" /\ frame[1].current = "menu"

\* the world after iterations that polled the events evs
WorldAfter(evs) == App_steps(screens, Standing, evs, 0).w

\* n DOWN presses
Downs(n) == [i \in 1..n |-> Press("DOWN")]

\* the cursor of the list screen registered as name, in the world w, as the index of
\* the item it is on among the items shown (view_habits shows NEW HABIT first, at
\* selected_index -1)
Cursor(name, w) ==
    CASE name = "menu" -> w.menu.selected_index
      [] name = "settings" -> w.settings.selected_index
      [] name = "habit_checker" -> w.others.habit_checker.selected_habit
      [] name = "view_habits" -> w.view.selected_index + 1

\* the number of items the list screen registered as name shows
Items(name, w) ==
    CASE name = "menu" -> Len(MenuItems)
      [] name = "settings" -> Len(SettingsItems)
      [] name = "habit_checker" -> Len(w.others.habit_checker.habits)
      [] name = "view_habits" -> Len(w.view.habits) + 1

\* the list screen registered as name is active, in its list mode, on its first item
OnFirstItem(name) ==
    /\ pc = "loop"
    /\ current_screen = name
    /\ Items(name, World) > 0
    /\ Cursor(name, World) = 0
    /\ name = "habit_checker" => ~others.habit_checker.checkbox_mode
    /\ name = "view_habits" => ~view.show_delete_popup

\* from the first item, N DOWN presses come back to it and one UP press lands on
\* the last item
Wraps(name) ==
    OnFirstItem(name) =>
        /\ Cursor(name, WorldAfter(Downs(Items(name, World)))) = 0
        /\ Cursor(name, WorldAfter(<<Press("UP")>>)) = Items(name, World) - 1

\* C13: on menu, habit_checker in habit-selection mode, view_habits and settings,
\* showing N items with the cursor on the first, N consecutive DOWN presses bring
\* the cursor back to the first item and one UP press lands on the last
C13_ListCursorsWrap ==
    \A name \in {"menu", "habit_checker", "view_habits", "settings"} : Wraps(name)

\* C13 without settings
C13_ListCursorsWrapButSettings ==
    \A name \in {"menu", "habit_checker", "view_habits"} : Wraps(name)

C13_Witness ==
    /\ initial_screen = "settings"
    /\ current_screen = "settings"
    /\ presses = MainPresses - 3
    /\ settings.selected_index = Len(SettingsItems) - 1
    /\ Cursor("settings", WorldAfter(<<Press("DOWN")>>)) = Len(SettingsItems) - 1

-----------------------------------------------------------------------------
(* Properties of the screens' handle_input and update *)

\* handle_input of the screen registered as name, given a release of any input
\* kind, returns None and leaves the world as it is
IgnoresReleases(name) ==
    \A t \in ScreenInputTypes :
        /\ Screen_handle_input(name, World, InputEvent(t, FALSE)).ret = None
        /\ Screen_handle_input(name, World, InputEvent(t, FALSE)).w = World

\* C14: in every mode the active screen is in, handle_input of a release event of
\* any input kind returns None and changes no state
C14_ReleaseIsNoOp ==
    pc = "loop" => IgnoresReleases(current_screen)

\* C14 for every screen but the popup
C14_ReleaseIsNoOpButPopup ==
    (pc = "loop" /\ current_screen # "popup_delete") => IgnoresReleases(current_screen)

C14_Witness ==
    /\ current_screen = "popup_delete"
    /\ presses = MainPresses
    /\ next_screen = None
    /\ CallsNamed("handle_input") # {}
    /\ others.popup_delete.selected_button = 1

\* what the render methods read of the world w: every screen's state but the scroll
\* timers, and a scroll offset only where render slices the name by it (the name of
\* the selected item is longer than the screen shows)
Rendered(w) ==
    LET v == w.view
        e == w.edit
        c == w.others.habit_checker
        view_scrolls == /\ v.selected_index >= 0
                        /\ v.selected_index < Len(v.habits)
                        /\ Len(v.habits[v.selected_index + 1].name) > ViewMaxDisplay
        edit_scrolls == e.selected_field = 0 /\ ~e.editing_name /\ Len(e.name) > EditMaxDisplay
        checker_scrolls == /\ ~c.checkbox_mode
                           /\ c.selected_habit < Len(c.habits)
                           /\ Len(c.habits[c.selected_habit + 1].name) > CheckerMaxName
    IN  [w EXCEPT !.view.scroll_timer = 0,
                  !.view.scroll_offset = IF view_scrolls THEN @ ELSE 0,
                  !.edit.scroll_timer = 0,
                  !.edit.scroll_offset = IF edit_scrolls THEN @ ELSE 0,
                  !.others.habit_checker.scroll_timer = 0,
                  !.others.habit_checker.scroll_offset = IF checker_scrolls THEN @ ELSE 0]

\* update(0.0) of the screen that is active once _handle_input had the outcome h
\* changes nothing render reads
ZeroUpdateKeeps(h) ==
    \A available \in CheckAnswers(h.screen, h.w) :
        Rendered(App_update(h.current, h.screen, h.w, 0, available).w) = Rendered(h.w)

\* C15: wherever the loop calls update, after the input handling of any event it
\* can poll, update(0.0) of the active screen leaves animation frame, scroll
\* offset, cursor blink, message and mode as they were
C15_ZeroDeltaUpdateChangesNothing ==
    pc = "loop" =>
        \A ev \in PollEvents :
            ZeroUpdateKeeps(App_handle_input(screens, current_screen_name, current_screen,
                                             World, ev))

\* the same, but for the update screen's first update since it was constructed or
\* reset, which makes the update check
ZeroUpdateKeepsButFirstCheck(h) ==
    ~(h.screen = "update" /\ ~h.w.others.update.update_checked) => ZeroUpdateKeeps(h)

\* C15 but for the update check: update(0.0) changes nothing render reads, except
\* that the update screen's first update makes the update check and shows its result
C15_ZeroDeltaUpdateChangesNothingButCheck ==
    pc = "loop" =>
        \A ev \in PollEvents :
            ZeroUpdateKeepsButFirstCheck(App_handle_input(screens, current_screen_name,
                                                          current_screen, World, ev))

C15_Witness ==
    /\ current_screen = "home"
    /\ \E u \in CallsNamed("update") : frame[u].on = "home"
    /\ CallsNamed("handle_input") # {}
    /\ others.home.speech_bubble.state = "animating_in"
    /\ others.home.speech_bubble.current_frame = 4
    /\ others.home.current_frame = 1

-----------------------------------------------------------------------------
(* Properties of the input sources and of the frame pacing *)

\* C16: with KeyboardInput, while the loop has not stopped, every input event
\* raised (a mapped key edge or the window's QUIT) has been returned by a poll or
\* is still pending, in the order raised, whatever was pending together at one
\* poll; so once a QUIT was raised and nothing is pending, the loop has stopped
C16_NoPendingEdgeDiscarded ==
    /\ pc # "stopped" => polled \o Keyboard_events(event_queue) = raised
    /\ (/\ \E i \in 1..Len(raised) : raised[i].input_type = "QUIT"
        /\ event_queue = <<>>) => pc = "stopped"

C16_Witness ==
    /\ raised = <<InputEvent("RIGHT", TRUE), InputEvent("QUIT", TRUE)>>
    /\ polled = <<InputEvent("RIGHT", TRUE)>>
    /\ event_queue = <<>>
    /\ current_screen = "menu"
    /\ pc = "loop"
    /\ running

\* C17: with GPIOInput, when k pins differ from their last reported level and keep
\* it, each of the next k polls returns one event, of a pin that differed and of no
\* pin twice, with pressed true exactly when the pin is low, and every poll after
\* them returns None
C17_EachChangedPinReportedOnce ==
    \A i \in 1..Len(polled) :
        IF i <= Cardinality(changed)
        THEN /\ polled[i].pin \in changed
             /\ polled[i].event
                   = InputEvent(pin_map[polled[i].pin], pins[polled[i].pin] = LOW)
             /\ \A j \in 1..(i - 1) : polled[j].pin # polled[i].pin
        ELSE polled[i].event = NoEvent

C17_Witness ==
    /\ changed = {6, 21}
    /\ pins[21] = HIGH
    /\ pins[6] = LOW
    /\ Len(polled) = 3
    /\ polled[1].event = InputEvent("LEFT", TRUE)
    /\ polled[2].event = InputEvent("BUTTON_A", FALSE)
    /\ polled[3].event = NoEvent
    /\ prev_state = pins

\* C18: at target rate 20 the frame period is 50 ms; an iteration whose work took
\* less sleeps the rest of the period and one whose work took 50 ms or more does
\* not sleep, whatever the iterations before it took: delta_time, which holds the
\* length of the iteration before, has no part in the sleep
C18_SleepIsTheRestOfTheFrame ==
    /\ FrameTime(TARGET_FPS) = 50
    /\ \A i \in 1..Len(paces) :
          /\ paces[i].work < 50 => paces[i].slept = 50 - paces[i].work
          /\ paces[i].work >= 50 => paces[i].slept = 0
          /\ i > 1 => paces[i].delta_time = paces[i - 1].work + paces[i - 1].slept
    /\ \A i, j \in 1..Len(paces) :
          paces[i].work = paces[j].work => paces[i].slept = paces[j].slept

C18_Witness ==
    /\ Len(paces) = 2
    /\ paces[1].work = 120
    /\ paces[1].slept = 0
    /\ paces[2].delta_time = 120
    /\ paces[2].work = 20
    /\ paces[2].slept = 30

-----------------------------------------------------------------------------
(* Properties of the screens' cached data *)

\* the figures the stats screen st holds are those of the store d
StatsAreOf(st, d) ==
    /\ st.total_points = StatsScreen(d).total_points
    /\ st.points_data = StatsScreen(d).points_data
    /\ st.completion_stats = StatsScreen(d).completion_stats
    /\ st.completion_rate.completed * StatsScreen(d).completion_rate.possible
         = StatsScreen(d).completion_rate.completed * st.completion_rate.possible

\* C19: whenever stats is the active screen, the total points and the completion
\* figures it holds are those computed from the store's logs as they are now
C19_StatsShowTheStore ==
    current_screen = "stats" => StatsAreOf(others.stats, db)

C19_Witness ==
    /\ current_screen = "stats"
    /\ \E s \in CallsNamed("swap") : frame[s].on = "stats"
    /\ others.stats.total_points = 5
    /\ StatsScreen(db).total_points = 0
    /\ ~others.habit_checker.habits[1].checks[3]

\* the list the view holds has one entry per row of the store, active or not, in
\* the store's order, with the row's id, name, points and active flag
ListIsStore(v, d) ==
    /\ Len(v.habits) = Len(d.habits)
    /\ \A i \in 1..Len(d.habits) :
          /\ v.habits[i].id = d.habits[i].id
          /\ v.habits[i].name = d.habits[i].name
          /\ v.habits[i].points = d.habits[i].points_per
          /\ v.habits[i].active = (d.habits[i].active = 1)

\* C20: whenever view_habits is the active screen, from the moment it becomes
\* active, after a save in the editor too, and after each delete it performs, the
\* list it holds is the store's full habit list in store order
C20_ListIsTheStore ==
    current_screen = "view_habits" => ListIsStore(view, db)

C20_Witness ==
    /\ current_screen = "view_habits"
    /\ \E s \in CallsNamed("swap") : frame[s].on = "view_habits" /\ frame[1].current = "edit_habit"
    /\ CallsNamed("reload") # {}
    /\ Len(db.habits) = 1
    /\ db.habits[1].name = <<"A">>
    /\ Len(view.habits) = 1

\* a delete was performed on a store with an inactive habit
C20_WitnessDelete ==
    /\ current_screen = "view_habits"
    /\ \E i \in CallsNamed("handle_input") : frame[i].on = "view_habits"
    /\ Len(db.habits) = 2
    /\ db.next_id = 5
    /\ db.habits[1].active = 0
    /\ ~view.habits[1].active
    /\ ~view.show_delete_popup

-----------------------------------------------------------------------------
(* Properties of the store's logs and of the habit checker *)

\* the logs the store d holds for a habit and a date
LogsFor(d, habit_id, date) == {l \in d.logs : l.habit_id = habit_id /\ l.date = date}

OneLogPerPair(d) ==
    \A l1, l2 \in d.logs : (l1.habit_id = l2.habit_id /\ l1.date = l2.date) => l1 = l2

\* the completed flag the store d gives for a habit and a date: no log reads as
\* not completed
CompletedOn(d, habit_id, date) == \E l \in LogsFor(d, habit_id, date) : l.completed # 0

\* log_habit_completion calls: the arguments that vary
LogCalls ==
    [habit_id : {1, 4}, date : {Today - 1, Today}, completed : BOOLEAN,
     points_earned : {0, 5}]

Logged(d, c) ==
    log_habit_completion(d, c.habit_id, c.date, c.completed, FALSE,
                         IF c.completed THEN 1 ELSE 0, c.points_earned)

\* the store d holds, for the pair of the call c, the one log that c wrote
CarriesCall(d, c) ==
    /\ Cardinality(LogsFor(d, c.habit_id, c.date)) = 1
    /\ \A l \in LogsFor(d, c.habit_id, c.date) :
          /\ l.completed = IntOfBool(c.completed)
          /\ l.points_earned = c.points_earned

\* the checkbox under the cursor of the habit checker of the world w
SelectedBox(w) ==
    [habit_id |-> w.others.habit_checker.habits[w.others.habit_checker.selected_habit + 1].id,
     date |-> CheckerDates[w.others.habit_checker.selected_day + 1],
     checked |-> w.others.habit_checker.habits[w.others.habit_checker.selected_habit + 1]
                     .checks[w.others.habit_checker.selected_day + 1]]

\* w1 is w after a toggle of the checkbox under the cursor: the box and the store's
\* one log for it carry the flag negated and the points of that flag
Toggled(w, w1) ==
    /\ SelectedBox(w1).checked = ~SelectedBox(w).checked
    /\ OneLogPerPair(w1.db)
    /\ CarriesCall(w1.db,
                   [habit_id |-> SelectedBox(w).habit_id, date |-> SelectedBox(w).date,
                    completed |-> ~SelectedBox(w).checked,
                    points_earned |->
                        IF SelectedBox(w).checked THEN 0
                        ELSE get_habit_by_id(w.db, SelectedBox(w).habit_id)[1].points_per])

TogglesRestore(w, w1, w2) ==
    /\ Toggled(w, w1)
    /\ Toggled(w1, w2)
    /\ SelectedBox(w2).checked = SelectedBox(w).checked
    /\ CompletedOn(w2.db, SelectedBox(w).habit_id, SelectedBox(w).date)
         = CompletedOn(w.db, SelectedBox(w).habit_id, SelectedBox(w).date)

\* C21: the store holds at most one log per (habit id, date), after the toggles of a
\* run and after any two further log_habit_completion calls, and each pair's log
\* carries the completed flag and the points of the latest call for it; two toggles
\* of the checkbox under the cursor restore the completed flag
C21_OneLogPerHabitAndDate ==
    /\ OneLogPerPair(db)
    /\ \A a, b \in LogCalls :
          /\ OneLogPerPair(Logged(Logged(db, a), b))
          /\ CarriesCall(Logged(Logged(db, a), b), b)
          /\ (a.habit_id # b.habit_id \/ a.date # b.date)
                => CarriesCall(Logged(Logged(db, a), b), a)
    /\ (pc = "loop" /\ current_screen = "habit_checker"
            /\ others.habit_checker.checkbox_mode) =>
          TogglesRestore(World,
                         WorldAfter(<<Press("BUTTON_A")>>),
                         WorldAfter(<<Press("BUTTON_A"), Press("BUTTON_A")>>))

\* yesterday's box of GYM was checked and unchecked again: its log stays, not completed
C21_Witness ==
    /\ pc = "loop"
    /\ current_screen = "habit_checker"
    /\ others.habit_checker.checkbox_mode
    /\ \E i \in CallsNamed("handle_input") : frame[i].on = "habit_checker"
    /\ SelectedBox(World) = [habit_id |-> 1, date |-> Today - 1, checked |-> FALSE]
    /\ LogsFor(db, 1, Today - 1) = {LogOf(1, Today - 1, 0, 0)}

-----------------------------------------------------------------------------
(* Properties of the editor's buttons *)

\* the editor is the active screen and its save/cancel row is selected
OnButtonRow ==
    /\ pc = "loop"
    /\ current_screen = "edit_habit"
    /\ ~edit.editing_name
    /\ edit.selected_button # None

\* _handle_input on a press of t, from the loop as it stands
Pressed(t) ==
    App_handle_input(screens, current_screen_name, current_screen, World, Press(t))

\* C22: BUTTON_A on the save button while the name is empty returns None, writes
\* nothing to the store and leaves the editor active, its form and cursor as they were
C22_EmptyNameIsNotSaved ==
    (OnButtonRow /\ edit.selected_button = "save" /\ edit.name = <<>>) =>
        /\ Edit_handle_input(edit, db, Press("BUTTON_A"))
             = [edit |-> edit, db |-> db, ret |-> None]
        /\ Pressed("BUTTON_A").ret = None
        /\ Pressed("BUTTON_A").current = "edit_habit"
        /\ Pressed("BUTTON_A").screen = "edit_habit"
        /\ Pressed("BUTTON_A").w = World

\* the save button was pressed on an empty name: the editor is still there
C22_Witness ==
    /\ OnButtonRow
    /\ edit.selected_button = "save"
    /\ edit.name = <<>>
    /\ edit.habit_id = NoId
    /\ presses = MaxPresses - 4
    /\ next_screen = None
    /\ \E i \in CallsNamed("handle_input") : frame[i].on = "edit_habit"
    /\ CallsNamed("swap") = {}
    /\ Pressed("BUTTON_A").w.db = db

\* what the latest load_habit_data call was given
EnteredWith == load_history[Len(load_history)]

\* the store d1 is the store d with the row of habit_id written anew, in its
\* place, and nothing else changed
UpdatesInPlace(d, d1, habit_id) ==
    /\ Len(d1.habits) = Len(d.habits)
    /\ \E i \in 1..Len(d.habits) : d.habits[i].id = habit_id
    /\ \A i \in 1..Len(d.habits) :
          /\ d1.habits[i].id = d.habits[i].id
          /\ d.habits[i].id # habit_id => d1.habits[i] = d.habits[i]
    /\ d1.logs = d.logs
    /\ d1.next_id = d.next_id

AddsOneRow(d, d1) ==
    /\ Len(d1.habits) = Len(d.habits) + 1
    /\ SubSeq(d1.habits, 1, Len(d.habits)) = d.habits
    /\ \A i \in 1..Len(d.habits) : d.habits[i].id # d1.habits[Len(d1.habits)].id
    /\ d1.logs = d.logs

\* C23: BUTTON_A on the save button with a name returns view_habits, which becomes
\* the active screen; the store gains exactly one row when the editor was entered
\* through NEW HABIT, and none when it was entered for a habit, whose row is
\* written in place
C23_SaveAddsOneOrUpdates ==
    (OnButtonRow /\ edit.selected_button = "save" /\ Len(edit.name) > 0
        /\ Len(load_history) > 0) =>
        /\ Pressed("BUTTON_A").ret = "view_habits"
        /\ Pressed("BUTTON_A").current = "view_habits"
        /\ IF EnteredWith = <<>>
           THEN AddsOneRow(db, Pressed("BUTTON_A").w.db)
           ELSE UpdatesInPlace(db, Pressed("BUTTON_A").w.db, EnteredWith[1].id)

\* a name was typed for a new habit next to three stored ones, and the save button
\* is selected
C23_Witness ==
    /\ OnButtonRow
    /\ edit.selected_button = "save"
    /\ edit.name = <<"A">>
    /\ Len(load_history) > 0
    /\ EnteredWith = <<>>
    /\ Len(db.habits) = 3
    /\ Len(Pressed("BUTTON_A").w.db.habits) = 4

\* the same for a habit entered from the list, its points changed on the form
C23_WitnessExisting ==
    /\ OnButtonRow
    /\ edit.selected_button = "save"
    /\ Len(load_history) > 0
    /\ EnteredWith # <<>>
    /\ EnteredWith[1].id = 1
    /\ edit.active = FALSE
    /\ Pressed("BUTTON_A").w.db.habits[1].active = 0
    /\ db.habits[1].active = 1

\* the editor is active with the name field selected, a name on the form and
\* nothing being edited
NameReady ==
    /\ pc = "loop"
    /\ current_screen = "edit_habit"
    /\ edit.selected_field = 0
    /\ edit.selected_button = None
    /\ ~edit.editing_name
    /\ ~edit.editing_freq
    /\ ~edit.editing_points
    /\ Len(edit.name) > 0

\* presses from the name field to the save button: by UP over the reminder field;
\* with the active flag toggled on the way; with the frequency changed (one more,
\* the other period); with the points changed (one more); with the type toggled
StraightToSave == <<Press("UP"), Press("DOWN")>>

ActiveToggledToSave ==
    <<Press("UP"), Press("UP"), Press("BUTTON_A"), Press("DOWN"), Press("DOWN")>>

FreqChangedToSave ==
    <<Press("DOWN"), Press("BUTTON_A"), Press("RIGHT"), Press("BUTTON_A"), Press("RIGHT"),
      Press("BUTTON_A"), Press("UP"), Press("UP"), Press("DOWN")>>

PointsChangedToSave ==
    <<Press("DOWN"), Press("DOWN"), Press("BUTTON_A"), Press("RIGHT"), Press("BUTTON_A"),
      Press("DOWN"), Press("DOWN"), Press("DOWN"), Press("DOWN")>>

TypeToggledToSave ==
    <<Press("UP"), Press("UP"), Press("UP"), Press("BUTTON_A"), Press("DOWN"),
      Press("DOWN"), Press("DOWN")>>

FormScripts ==
    {StraightToSave, ActiveToggledToSave, FreqChangedToSave, PointsChangedToSave,
     TypeToggledToSave}

\* the row of the store d shows the values of the form e
RowIsForm(row, e) ==
    /\ row.name = e.name
    /\ row.points_per = e.points
    /\ row.recurrence = FormatRecurrence(e.freq_number, e.freq_period)
    /\ row.category = (IF e.is_good THEN "good" ELSE "bad")
    /\ row.active = IntOfBool(e.active)

\* the loop h stands on the save button with a name; after BUTTON_A, in the loop
\* h1, the row of the habit saved shows the form of h
SavedAsShown(h, h1) ==
    /\ h.current = "edit_habit"
    /\ h.w.edit.selected_button = "save"
    /\ Len(h.w.edit.name) > 0
    /\ h1.current = "view_habits"
    /\ Len(get_habit_by_id(h1.w.db, h1.w.edit.habit_id)) = 1
    /\ RowIsForm(get_habit_by_id(h1.w.db, h1.w.edit.habit_id)[1], h.w.edit)

SavedAfter(script) ==
    SavedAsShown(App_steps(screens, Standing, script, 0),
                 App_steps(screens, Standing, script \o <<Press("BUTTON_A")>>, 0))

\* C24: after a save, of a new habit or of a stored one, the stored row's name,
\* points, recurrence (number/period), category and active flag are those the form
\* showed when the save button was pressed
C24_SavedRecordIsTheForm ==
    NameReady => \A script \in FormScripts : SavedAfter(script)

\* the same, but for the active flag of a habit that is created
C24_SavedRecordIsTheFormButNewActive ==
    NameReady =>
        \A script \in FormScripts :
            (edit.habit_id # NoId \/ script # ActiveToggledToSave) => SavedAfter(script)

\* a name was typed for a new habit next to three stored ones: with the active flag
\* toggled off on the form, the row saved is active
C24_Witness ==
    /\ NameReady
    /\ edit.habit_id = NoId
    /\ edit.name = <<"A">>
    /\ Len(db.habits) = 3
    /\ ~App_steps(screens, Standing, ActiveToggledToSave, 0).w.edit.active
    /\ App_steps(screens, Standing, ActiveToggledToSave \o <<Press("BUTTON_A")>>, 0)
           .w.db.habits[4].active = 1

\* C28: with the save/cancel row selected, LEFT selects the cancel button and RIGHT
\* the save button, and neither returns a transition
C28_LeftCancelRightSave ==
    OnButtonRow =>
        /\ Pressed("LEFT").ret = None
        /\ Pressed("LEFT").w.edit.selected_button = "cancel"
        /\ Pressed("RIGHT").ret = None
        /\ Pressed("RIGHT").w.edit.selected_button = "save"

\* what holds: LEFT selects save and RIGHT cancel
C28_LeftSaveRightCancel ==
    OnButtonRow =>
        /\ Pressed("LEFT").ret = None
        /\ Pressed("LEFT").w.edit = [edit EXCEPT !.selected_button = "save"]
        /\ Pressed("RIGHT").ret = None
        /\ Pressed("RIGHT").w.edit = [edit EXCEPT !.selected_button = "cancel"]

\* the cancel button was selected from the save button
C28_Witness ==
    /\ OnButtonRow
    /\ edit.selected_button = "cancel"
    /\ next_screen = None
    /\ \E i \in CallsNamed("handle_input") : frame[i].on = "edit_habit"
    /\ Pressed("LEFT").w.edit.selected_button = "save"

-----------------------------------------------------------------------------
(* Properties of the delete popup of the habit list *)

\* view_habits is the active screen and its delete popup is open
PopupOpen ==
    /\ pc = "loop"
    /\ current_screen = "view_habits"
    /\ view.show_delete_popup

\* the id of the habit under the list cursor
SelectedId == view.habits[view.selected_index + 1].id

\* the store d1 is the store d without the habit habit_id and without its logs,
\* everything else as it was
RemovesExactly(d, d1, habit_id) ==
    /\ \E i \in 1..Len(d.habits) : d.habits[i].id = habit_id
    /\ d1.habits = SelectSeq(d.habits, LAMBDA h : h.id # habit_id)
    /\ Len(d1.habits) = Len(d.habits) - 1
    /\ d1.logs = {l \in d.logs : l.habit_id # habit_id}
    /\ d1.next_id = d.next_id

\* the list cursor of v is on a habit of its list, or on NEW HABIT when it is empty
CursorInside(v) ==
    IF Len(v.habits) = 0 THEN v.selected_index = -1
    ELSE v.selected_index >= 0 /\ v.selected_index < Len(v.habits)

\* C25: with the delete popup open on a habit and OK selected, BUTTON_A removes that
\* habit's row and its logs from the store and nothing else, closes the popup and
\* leaves the cursor on a habit of the shortened list (on NEW HABIT when the list
\* is now empty); view_habits stays active
C25_OkDeletesExactlyTheHabit ==
    PopupOpen =>
        /\ view.selected_index >= 0
        /\ view.selected_index < Len(view.habits)
        /\ view.popup_selected_button = 0 =>
              /\ RemovesExactly(db, Pressed("BUTTON_A").w.db, SelectedId)
              /\ ListIsStore(Pressed("BUTTON_A").w.view, Pressed("BUTTON_A").w.db)
              /\ ~Pressed("BUTTON_A").w.view.show_delete_popup
              /\ CursorInside(Pressed("BUTTON_A").w.view)
              /\ Pressed("BUTTON_A").ret = None
              /\ Pressed("BUTTON_A").current = "view_habits"

\* the popup is open on GYM, which has a log, with OK selected
C25_Witness ==
    /\ PopupOpen
    /\ view.popup_selected_button = 0
    /\ SelectedId = 1
    /\ \E l \in db.logs : l.habit_id = 1
    /\ \E i \in CallsNamed("handle_input") : frame[i].on = "view_habits"
    /\ Len(Pressed("BUTTON_A").w.db.habits) = 2
    /\ Pressed("BUTTON_A").w.db.logs = {LogOf(2, Today - 1, 0, 0)}

\* closing the popup by a press of t leaves the store and the list as they are,
\* closes the popup and selects OK in it
ClosesUnchanged(t) ==
    /\ Pressed(t).w.db = db
    /\ Pressed(t).w.view =
          [view EXCEPT !.show_delete_popup = FALSE, !.popup_selected_button = 0]

\* C26 as stated: while the popup is open no input returns a transition or moves
\* the list cursor, and BUTTON_A on Cancel and BUTTON_B close it with the store and
\* the list unchanged and OK selected
C26_PopupIsModal ==
    PopupOpen =>
        /\ \A ev \in ScreenEvents :
              /\ View_handle_input(view, db, selected_habit_data, ev).ret = None
              /\ View_handle_input(view, db, selected_habit_data, ev).view.selected_index
                   = view.selected_index
        /\ view.popup_selected_button = 1 => ClosesUnchanged("BUTTON_A")
        /\ ClosesUnchanged("BUTTON_B")

\* C26 amended: the cursor is moved by no input but BUTTON_A on OK, the delete
C26_PopupIsModalButDelete ==
    PopupOpen =>
        /\ \A ev \in ScreenEvents :
              /\ View_handle_input(view, db, selected_habit_data, ev).ret = None
              /\ (ev # Press("BUTTON_A") \/ view.popup_selected_button # 0) =>
                    View_handle_input(view, db, selected_habit_data, ev).view.selected_index
                      = view.selected_index
        /\ view.popup_selected_button = 1 => ClosesUnchanged("BUTTON_A")
        /\ ClosesUnchanged("BUTTON_B")

\* the popup is open with Cancel selected
C26_Witness ==
    /\ PopupOpen
    /\ view.popup_selected_button = 1
    /\ Len(view.habits) = 3
    /\ \E i \in CallsNamed("handle_input") : frame[i].on = "view_habits"
    /\ Pressed("BUTTON_A").w.db = db
    /\ ~Pressed("BUTTON_A").w.view.show_delete_popup
    /\ Pressed("BUTTON_A").w.view.popup_selected_button = 0

-----------------------------------------------------------------------------
(* Properties of the text input widget *)

\* C27: after activate and any inputs, the value of the widget is never longer
\* than max_length, and handle_input on a BUTTON_A press at full length leaves the
\* widget as it is and returns None
C27_ValueWithinMaxLength ==
    /\ Len(widget.value) <= widget.max_length
    /\ (widget.active /\ Len(widget.value) = widget.max_length) =>
          Text_handle_input(widget, Press("BUTTON_A")) = [w |-> widget, result |-> <<>>]

\* BUTTON_A was pressed four times on a widget of max_length 3
C27_Witness ==
    /\ widget.active
    /\ polled = <<Press("BUTTON_A"), Press("BUTTON_A"), Press("BUTTON_A"), Press("BUTTON_A")>>
    /\ widget.value = <<"A", "A", "A">>
    /\ widget.max_length = 3

-----------------------------------------------------------------------------
(* Properties of the modes of the habit checker and of the update screen *)

\* the habit checker in the loop after an iteration that polled ev and measured
\* delta_time, and what the store and the active screen are then
CheckerAfter(ev, delta_time) ==
    App_step(screens, Standing, ev, delta_time).w.others.habit_checker

\* handle_input(ev) on the habit checker c keeps the modes apart
ModesApart(c, ev) ==
    LET r == Checker_handle_input(c, db, ev)
    IN  /\ (~c.checkbox_mode /\ r.checker.checkbox_mode) => ev = Press("BUTTON_A")
        /\ (c.checkbox_mode /\ ~r.checker.checkbox_mode) => ev = Press("BUTTON_B")
        /\ c.checkbox_mode =>
              /\ r.ret = None
              /\ r.checker.selected_habit = c.selected_habit
        /\ ~c.checkbox_mode =>
              /\ r.checker.habits = c.habits
              /\ r.checker.selected_day = c.selected_day
              /\ r.db = db

\* C29: on the habit checker, checkbox mode is entered by no input but BUTTON_A in
\* habit-selection mode and left by none but BUTTON_B; in checkbox mode no input
\* returns a transition or changes the selected habit; in habit-selection mode no
\* input changes a checkbox, the store or the selected day; and the mode after
\* an iteration is the mode handle_input left
C29_ModesOfTheChecker ==
    (pc = "loop" /\ current_screen = "habit_checker") =>
        \A ev \in ScreenEvents :
            /\ ModesApart(others.habit_checker, ev)
            /\ \A delta_time \in DeltaTimes :
                  CheckerAfter(ev, delta_time).checkbox_mode
                    = Checker_handle_input(others.habit_checker, db, ev).checker.checkbox_mode

\* in checkbox mode, on the second habit, the selected day was moved
C29_Witness ==
    /\ pc = "loop"
    /\ current_screen = "habit_checker"
    /\ others.habit_checker.checkbox_mode
    /\ others.habit_checker.selected_habit = 1
    /\ others.habit_checker.selected_day = 1
    /\ \E i \in CallsNamed("handle_input") : frame[i].on = "habit_checker"
    /\ CheckerAfter(Press("BUTTON_B"), 0).checkbox_mode = FALSE

\* the latest iteration rendered the update screen
UpdateRendered == \E r \in CallsNamed("render") : frame[r].on = "update"

\* C30: an iteration in which the update screen makes its check follows one that
\* rendered the update screen with the "Checking for update..." message, and
\* whenever the update screen is rendered in its show_result state the check of
\* the visit has been made
C30_CheckingShownBeforeTheCheck ==
    /\ [][(~others.update.update_checked /\ others.update'.update_checked) =>
            (UpdateRendered /\ others.update.message = "checking")]_vars
    /\ []((UpdateRendered /\ others.update.state = "show_result")
            => others.update.update_checked)

\* what holds: the result is rendered only after the check
C30_ResultOnlyAfterTheCheck ==
    (UpdateRendered /\ others.update.state = "show_result") => others.update.update_checked

\* the iteration that made update the active screen made the check and rendered
\* the result
C30_Witness ==
    /\ \E s \in CallsNamed("swap") : frame[s].on = "update"
    /\ UpdateRendered
    /\ others.update.update_checked
    /\ others.update.state = "show_result"

-----------------------------------------------------------------------------
(* Properties of the stats screen's bars *)

\* C31: on the stats screen hunger and happiness, which start at 50 and 70, are
\* within 0..100 after any number of BUTTON_A, BUTTON_B and BUTTON_C presses
C31_BarsWithinRange ==
    /\ others.stats.hunger \in 0..100
    /\ others.stats.happiness \in 0..100

\* what holds: hunger is within 0..100 and happiness within 0..105
C31_BarsWithinCycle ==
    /\ others.stats.hunger \in 0..100
    /\ others.stats.happiness \in 0..105

\* seventeen button presses were handled by the stats screen
C31_Witness ==
    /\ current_screen = "stats"
    /\ presses = 0
    /\ \E i \in CallsNamed("handle_input") : frame[i].on = "stats"
    /\ others.stats.hunger = 0
    /\ others.stats.happiness = 105

-----------------------------------------------------------------------------
(* Properties of the editor's round trip and of its cursor *)

\* the editor has just been made the active screen for a habit of the list
OpenedForHabit ==
    /\ pc = "loop"
    /\ current_screen = "edit_habit"
    /\ CallsNamed("reload") # {}
    /\ Len(load_history) > 0
    /\ EnteredWith # <<>>

\* the loop after the presses that go from the name field to the save button and
\* press it, no field touched
SavedUntouched ==
    App_steps(screens, Standing, StraightToSave \o <<Press("BUTTON_A")>>, 0)

\* C32: opening a habit from view_habits and saving it with no field changed leaves
\* the stored record of that habit as it was, its category, type and active flag
\* included
C32_UntouchedSaveKeepsRecord ==
    OpenedForHabit =>
        /\ SavedUntouched.current = "view_habits"
        /\ get_habit_by_id(SavedUntouched.w.db, EnteredWith[1].id)
             = get_habit_by_id(db, EnteredWith[1].id)

\* what holds: the row is written in place, every other row is kept, and the name,
\* the points and the active flag of the row are as they were
C32_UntouchedSaveKeepsShownFields ==
    OpenedForHabit =>
        /\ SavedUntouched.current = "view_habits"
        /\ UpdatesInPlace(db, SavedUntouched.w.db, EnteredWith[1].id)
        /\ \A i \in 1..Len(db.habits) :
              /\ SavedUntouched.w.db.habits[i].name = db.habits[i].name
              /\ SavedUntouched.w.db.habits[i].points_per = db.habits[i].points_per
              /\ SavedUntouched.w.db.habits[i].active = db.habits[i].active

\* the editor was opened for the incremental, bad habit: saved untouched, it is
\* stored as binary and good
C32_Witness ==
    /\ OpenedForHabit
    /\ EnteredWith[1].id = 2
    /\ db.habits[2].type = "incremental"
    /\ db.habits[2].category = "bad"
    /\ SavedUntouched.w.db.habits[2].type = "binary"
    /\ SavedUntouched.w.db.habits[2].category = "good"
    /\ SavedUntouched.w.db.habits[2].active = 0

\* C33: in every reachable state of the editor, selected_button is None exactly
\* when selected_field is in 0..5, and selected_field is -1 otherwise; at most one
\* of editing_name, editing_freq and editing_points is true, and each only while
\* selected_field is 0, 1 and 2 respectively
C33_CursorAndEditingFlags ==
    /\ (edit.selected_button = None) <=> (edit.selected_field \in 0..(NumFields - 1))
    /\ edit.selected_button # None =>
          /\ edit.selected_field = -1
          /\ edit.selected_button \in {"save", "cancel"}
    /\ ~(edit.editing_name /\ edit.editing_freq)
    /\ ~(edit.editing_name /\ edit.editing_points)
    /\ ~(edit.editing_freq /\ edit.editing_points)
    /\ edit.editing_name => edit.selected_field = 0
    /\ edit.editing_freq => edit.selected_field = 1
    /\ edit.editing_points => edit.selected_field = 2

\* the editor, active, took a press while its points field was being edited
C33_Witness ==
    /\ pc = "loop"
    /\ current_screen = "edit_habit"
    /\ edit.editing_points
    /\ edit.selected_field = 2
    /\ edit.points # 5
    /\ \E i \in CallsNamed("handle_input") : frame[i].on = "edit_habit"

\* a field of the editor is being edited
EditingAField == edit.editing_name \/ edit.editing_freq \/ edit.editing_points

-----------------------------------------------------------------------------
(* Properties of the cursor of the habit list *)

CursorWithin(v) == v.selected_index \in -1..(Len(v.habits) - 1)

\* the stores with one habit of d deleted, and the store with none left
ShorterStores(d) ==
    {delete_habit(d, d.habits[i].id) : i \in 1..Len(d.habits)}
        \cup {[d EXCEPT !.habits = <<>>]}

\* C35: in every reachable state of view_habits -1 <= selected_index < number of
\* cached habits: after each event it handles, after deleting the last habit of
\* the list or the only habit, and after reload_habits on a store made shorter
\* elsewhere
C35_CursorWithinList ==
    /\ CursorWithin(view)
    /\ \A ev \in ScreenEvents :
          CursorWithin(View_handle_input(view, db, selected_habit_data, ev).view)
    /\ \A d \in ShorterStores(db) : CursorWithin(View_reload_habits(view, d))

\* the only habit left was deleted: the cursor is on NEW HABIT
C35_Witness ==
    /\ pc = "loop"
    /\ current_screen = "view_habits"
    /\ \E i \in CallsNamed("handle_input") : frame[i].on = "view_habits"
    /\ db.next_id = 5
    /\ Len(db.habits) = 0
    /\ Len(view.habits) = 0
    /\ view.selected_index = -1
    /\ ~view.show_delete_popup

\* the last habit of a list of three was deleted: the cursor is on the new last one
C35_WitnessLast ==
    /\ pc = "loop"
    /\ current_screen = "view_habits"
    /\ \E i \in CallsNamed("handle_input") : frame[i].on = "view_habits"
    /\ db.next_id = 5
    /\ Len(view.habits) = 2
    /\ view.selected_index = 1
    /\ view.habits[2].id = 2
    /\ ~view.show_delete_popup

-----------------------------------------------------------------------------
(* Properties of the checkboxes of the habit checker *)

\* the rows of c are the active habits of the store d in store order, and each
\* checkbox is the completed flag of the store's log for its habit and day, false
\* when there is none
BoxesAreLogs(c, d) ==
    LET shown == get_all_habits(d, TRUE)
    IN  /\ Len(c.habits) = Len(shown)
        /\ \A i \in 1..Len(shown) :
              /\ c.habits[i].id = shown[i].id
              /\ \A k \in 1..3 :
                    c.habits[i].checks[k] = CompletedOn(d, shown[i].id, CheckerDates[k])

CheckerCursorValid(c) ==
    /\ Len(c.habits) > 0 => c.selected_habit \in 0..(Len(c.habits) - 1)
    /\ c.selected_day \in 0..2

-----------------------------------------------------------------------------
(* Properties of the screens reached from home *)

\* the screens main() registers that no screen entered from home returns
NeverEntered == {"habits", "habit_form", "habit_form_edit", "popup_delete"}

\* C37: started on home with the registry of main(), habits, habit_form,
\* habit_form_edit and popup_delete are never the active screen, and no event
\* handled by the active screen makes one of them active
C37_DemoScreensNeverActive ==
    /\ current_screen_name \notin NeverEntered
    /\ current_screen \notin NeverEntered
    /\ pc = "loop" =>
          \A ev \in ScreenEvents :
              App_handle_input(screens, current_screen_name, current_screen, World, ev).current
                  \notin NeverEntered

\* the editor was reached from home: menu, settings, view_habits, edit_habit
C37_Witness ==
    /\ initial_screen = "home"
    /\ screens = MainRegistry
    /\ pc = "loop"
    /\ current_screen = "edit_habit"
    /\ \E i \in CallsNamed("swap") : frame[i].on = "edit_habit"

\* the event of one way towards home from the loop state h: out of the mode the
\* active screen is in, then out of the screen
EscapeEvent(h) ==
    CASE h.current \in {"menu", "stats", "settings", "about"} -> Press("LEFT")
      [] h.current = "update" ->
            IF h.w.others.update.state # "show_result" THEN NoEvent
            ELSE IF h.w.others.update.selected_button = 0 THEN Press("RIGHT")
            ELSE Press("BUTTON_A")
      [] h.current = "view_habits" ->
            IF h.w.view.show_delete_popup THEN Press("BUTTON_B") ELSE Press("LEFT")
      [] h.current = "habit_checker" ->
            IF Len(h.w.others.habit_checker.habits) > 0
                 /\ h.w.others.habit_checker.checkbox_mode
            THEN Press("BUTTON_B")
            ELSE Press("LEFT")
      [] h.current = "edit_habit" ->
            IF h.w.edit.editing_name THEN Press("BUTTON_C")
            ELSE IF h.w.edit.editing_freq \/ h.w.edit.editing_points THEN Press("BUTTON_A")
            ELSE IF h.w.edit.selected_button = None THEN Press("DOWN")
            ELSE IF h.w.edit.selected_button = "save" THEN Press("RIGHT")
            ELSE Press("BUTTON_A")
      [] OTHER -> NoEvent

RECURSIVE HomeWithin(_, _, _)
\* home is the active screen after at most n iterations from h, each polling the
\* event of the way above
HomeWithin(h, n, delta_time) ==
    IF h.current = "home" THEN TRUE
    ELSE IF n = 0 THEN FALSE
    ELSE LET stepped == App_step(screens, h, EscapeEvent(h), delta_time)
         IN  stepped.running /\ HomeWithin(stepped, n - 1, delta_time)

\* C38: from every state of the running loop reached from home, whatever the
\* active screen and its mode (popup open, field being edited, checkbox mode,
\* check not yet made), some finite sequence of press events and frames makes home
\* the active screen
C38_NoDeadEnd ==
    (pc = "loop" /\ running) =>
        \A delta_time \in DeltaTimes : HomeWithin(Standing, EscapeBound, delta_time)

\* the editor, reached from home, has the number of its frequency field being
\* edited; home is eleven iterations away
C38_Witness ==
    /\ initial_screen = "home"
    /\ pc = "loop"
    /\ running
    /\ current_screen = "edit_habit"
    /\ edit.editing_freq
    /\ edit.freq_edit_stage = 0
    /\ HomeWithin(Standing, 11, 0)
    /\ ~HomeWithin(Standing, 10, 0)

-----------------------------------------------------------------------------
(* Properties of the speech bubble and of the update screen's visits *)

\* the moves of the bubble's state
BubbleMoves ==
    {<<"hidden", "animating_in">>, <<"animating_in", "showing">>,
     <<"showing", "animating_out">>, <<"animating_out", "hidden">>}

BubbleAnimating(b) == b.state \in {"animating_in", "animating_out"}

\* C39: the speech bubble's state moves only hidden -> animating_in -> showing ->
\* animating_out -> hidden; toggle, and BUTTON_B on home, change nothing while it
\* is animating; and whenever the state is animating_in or animating_out once an
\* iteration has updated and rendered, current_frame is in 0..4
C39_BubbleCycle ==
    /\ [][\/ others'.home.speech_bubble.state = others.home.speech_bubble.state
          \/ <<others.home.speech_bubble.state, others'.home.speech_bubble.state>>
                \in BubbleMoves]_vars
    /\ [](/\ others.home.speech_bubble.state
               \in {"hidden", "animating_in", "showing", "animating_out"}
          /\ BubbleAnimating(others.home.speech_bubble) =>
                /\ others.home.speech_bubble.current_frame \in 0..4
                /\ Bubble_toggle(others.home.speech_bubble, HelloLen)
                      = others.home.speech_bubble
                /\ Home_handle_input(others.home, Press("BUTTON_B")).home = others.home)

\* the bubble, shown and toggled again, is on the last frame of its way out
C39_Witness ==
    /\ pc = "loop"
    /\ current_screen = "home"
    /\ others.home.speech_bubble.state = "animating_out"
    /\ others.home.speech_bubble.current_frame = 4
    /\ \E i \in CallsNamed("render") : frame[i].on = "home"

\* the update screen ignores the event ev
UpdateIgnores(u, ev) == Update_handle_input(u, ev) = [update |-> u, ret |-> None]

\* C40: a visit to the update screen makes the check once, however many frames
\* pass: the iteration that enters makes it, and while the visit lasts the result
\* of the check is not replaced; no event is handled until the result is shown;
\* and once the screen is left, through OK or Cancel, its state is the reset one,
\* so that the iteration that enters it again makes a check again
C40_OneCheckPerVisit ==
    /\ [][/\ (others.update.update_checked /\ others'.update.update_checked) =>
               /\ others'.update.update_available = others.update.update_available
               /\ others'.update.message = others.update.message
               /\ others'.update.state = others.update.state
          /\ (current_screen_name # "update" /\ current_screen_name' = "update") =>
               /\ ~others.update.update_checked
               /\ others'.update.update_checked
               /\ others'.update.state = "show_result"]_vars
    /\ [](/\ (pc = "loop" /\ UpdateRendered) =>
               /\ others.update.update_checked
               /\ others.update.state = "show_result"
          /\ others.update.state # "show_result" =>
               \A ev \in ScreenEvents : UpdateIgnores(others.update, ev)
          /\ (pc = "loop" /\ current_screen_name # "update") =>
               others.update = UpdateScreen
          /\ \A t \in {"LEFT", "RIGHT"} :
               Update_handle_input(Update_handle_input(others.update, Press(t)).update,
                                   Press("BUTTON_A"))
                 = IF others.update.state = "show_result"
                   THEN [update |-> UpdateScreen, ret |-> "settings"]
                   ELSE [update |-> others.update, ret |-> None])

\* the update screen, left through its OK button, was entered again: the iteration
\* that entered it made a check
C40_Witness ==
    /\ initial_screen = "home"
    /\ pc = "loop"
    /\ current_screen_name = "update"
    /\ \E i \in CallsNamed("swap") : frame[i].on = "update"
    /\ UpdateRendered
    /\ others.update.update_checked
    /\ presses <= HomePresses - 7

====
